---- MODULE Spec2Model ----
(***************************************************************************)
(* Model of the watermark detection engine of src/src/watermark/detector.py *)
(* (detect_watermark_robust and the scoring functions it calls).           *)
(*                                                                         *)
(* Text is a sequence of Unicode code points, a byte string a sequence of  *)
(* numbers in 0..255.  Python floats are modelled as exact rationals       *)
(* <<numerator, denominator>> in lowest terms.  An optional value          *)
(* (Python None or a value) is a record [some, v].                         *)
(***************************************************************************)
EXTENDS Integers, Sequences, FiniteSets, TLC

----------------------------------------------------------------------------
(* Optional values *)

None(default) == [some |-> FALSE, v |-> default]

Some(x) == [some |-> TRUE, v |-> x]

NoText == None(<<>>)

NoInt == None(0)

----------------------------------------------------------------------------
(* Exact rational arithmetic standing for Python float arithmetic *)

Abs(x) == IF x < 0 THEN -x ELSE x

Min2(a, b) == IF a <= b THEN a ELSE b

Max2(a, b) == IF a >= b THEN a ELSE b

RECURSIVE Gcd(_, _)
Gcd(a, b) == IF b = 0 THEN a ELSE Gcd(b, a % b)

R(n, d) ==
    LET g == Gcd(Abs(n), d)
    IN  IF n = 0 THEN <<0, 1>> ELSE <<n \div g, d \div g>>

RZero == <<0, 1>>

ROne == <<1, 1>>

RMul(a, b) == R(a[1] * b[1], a[2] * b[2])

RAdd(a, b) == R(a[1] * b[2] + b[1] * a[2], a[2] * b[2])

RLe(a, b) == a[1] * b[2] <= b[1] * a[2]

RLt(a, b) == a[1] * b[2] < b[1] * a[2]

RMax(a, b) == IF RLt(a, b) THEN b ELSE a

----------------------------------------------------------------------------
(* Character classes of Python str for the code points the model uses:     *)
(* U+0000..U+00FF and the images of bytes 0x80..0x9F under cp1252.         *)

Cp1252High ==
    << 8364, -1, 8218, 402, 8222, 8230, 8224, 8225, 710, 8240, 352, 8249,
       338, -1, 381, -1, -1, 8216, 8217, 8220, 8221, 8226, 8211, 8212, 732,
       8482, 353, 8250, 339, -1, 382, 376 >>

Cp1252Alnum == {402, 710, 352, 338, 381, 353, 339, 382, 376}

isprintable(c) ==
    \/ c \in 32..126
    \/ c \in 161..172
    \/ c \in 174..255
    \/ c > 255

isalnum(c) ==
    \/ c \in 48..57
    \/ c \in 65..90
    \/ c \in 97..122
    \/ c \in {170, 178, 179, 181, 185, 186, 188, 189, 190}
    \/ c \in 192..214
    \/ c \in 216..246
    \/ c \in 248..255
    \/ c \in Cp1252Alnum

isspace(c) == c \in (9..13) \cup (28..32) \cup {133, 160}

IsAsciiLetter(c) == c \in (65..90) \cup (97..122)

IsDigit(c) == c \in 48..57

lowerChar(c) ==
    IF c \in 65..90 \/ c \in 192..214 \/ c \in 216..222 THEN c + 32
    ELSE IF c \in {352, 338, 381} THEN c + 1
    ELSE IF c = 376 THEN 255
    ELSE c

lower(s) == [i \in 1..Len(s) |-> lowerChar(s[i])]

CharSet(s) == {s[i] : i \in 1..Len(s)}

RECURSIVE strip(_)
strip(s) ==
    IF s = <<>> THEN s
    ELSE IF isspace(s[1]) THEN strip(Tail(s))
    ELSE IF isspace(s[Len(s)]) THEN strip(SubSeq(s, 1, Len(s) - 1))
    ELSE s

(* s2 occurs in s1 as a contiguous substring: Python "s2 in s1" *)
Contains(s1, s2) ==
    \E i \in 0..(Len(s1) - Len(s2)) : SubSeq(s1, i + 1, i + Len(s2)) = s2

----------------------------------------------------------------------------
(* Codecs: str.encode('utf-8') and bytes.decode(encoding, errors)          *)

RECURSIVE Utf8Encode(_)
Utf8Encode(s) ==
    IF s = <<>> THEN <<>>
    ELSE LET c == s[1]
             b == IF c < 128 THEN <<c>>
                  ELSE IF c < 2048 THEN <<192 + (c \div 64), 128 + (c % 64)>>
                  ELSE IF c < 65536
                       THEN <<224 + (c \div 4096), 128 + ((c \div 64) % 64),
                              128 + (c % 64)>>
                  ELSE <<240 + (c \div 262144), 128 + ((c \div 4096) % 64),
                         128 + ((c \div 64) % 64), 128 + (c % 64)>>
         IN  b \o Utf8Encode(Tail(s))

IsCont(b) == b \in 128..191

(* Number of bytes the UTF-8 sequence introduced by lead byte b must have, *)
(* 0 when b cannot start a sequence.                                       *)
Utf8Need(b) ==
    IF b < 128 THEN 1
    ELSE IF b \in 194..223 THEN 2
    ELSE IF b \in 224..239 THEN 3
    ELSE IF b \in 240..244 THEN 4
    ELSE 0

(* Allowed range of the second byte after lead byte b *)
Utf8Second(b) ==
    IF b = 224 THEN 160..191
    ELSE IF b = 237 THEN 128..159
    ELSE IF b = 240 THEN 144..191
    ELSE IF b = 244 THEN 128..143
    ELSE 128..191

(* Length of the longest valid prefix of the sequence starting at bs[1] *)
Utf8Good(bs) ==
    LET need == Utf8Need(bs[1])
    IN  IF need <= 1 THEN need
        ELSE IF Len(bs) < 2 \/ bs[2] \notin Utf8Second(bs[1]) THEN 1
        ELSE IF need = 2 THEN 2
        ELSE IF Len(bs) < 3 \/ ~IsCont(bs[3]) THEN 2
        ELSE IF need = 3 THEN 3
        ELSE IF Len(bs) < 4 \/ ~IsCont(bs[4]) THEN 3
        ELSE 4

Utf8CodePoint(bs, n) ==
    IF n = 1 THEN bs[1]
    ELSE IF n = 2 THEN (bs[1] - 192) * 64 + (bs[2] - 128)
    ELSE IF n = 3 THEN (bs[1] - 224) * 4096 + (bs[2] - 128) * 64 + (bs[3] - 128)
    ELSE (bs[1] - 240) * 262144 + (bs[2] - 128) * 4096
         + (bs[3] - 128) * 64 + (bs[4] - 128)

(* bytes.decode('utf-8', errors): [ok, text]; errors is "strict",          *)
(* "ignore" (an ill-formed maximal subpart is dropped and decoding goes    *)
(* on) or "replace" (it is replaced by U+FFFD).                            *)
RECURSIVE Utf8Decode(_, _)
Utf8Decode(bs, errors) ==
    IF bs = <<>> THEN [ok |-> TRUE, text |-> <<>>]
    ELSE LET need == Utf8Need(bs[1])
             good == Utf8Good(bs)
         IN  IF need > 0 /\ good = need
             THEN LET rest == Utf8Decode(SubSeq(bs, need + 1, Len(bs)), errors)
                  IN  [ok |-> rest.ok,
                       text |-> <<Utf8CodePoint(bs, need)>> \o rest.text]
             ELSE IF errors = "strict" THEN [ok |-> FALSE, text |-> <<>>]
             ELSE LET rest == Utf8Decode(SubSeq(bs, Max2(good, 1) + 1, Len(bs)),
                                         errors)
                  IN  IF errors = "replace"
                      THEN [ok |-> TRUE, text |-> <<65533>> \o rest.text]
                      ELSE rest

AsciiDecode(bs, errors) ==
    IF errors = "strict"
    THEN IF \A i \in 1..Len(bs) : bs[i] < 128
         THEN [ok |-> TRUE, text |-> bs]
         ELSE [ok |-> FALSE, text |-> <<>>]
    ELSE [ok |-> TRUE, text |-> SelectSeq(bs, LAMBDA b : b < 128)]

Latin1Decode(bs, errors) == [ok |-> TRUE, text |-> bs]

Cp1252Char(b) == IF b \in 128..159 THEN Cp1252High[b - 127] ELSE b

Cp1252Decode(bs, errors) ==
    LET defined == SelectSeq(bs, LAMBDA b : Cp1252Char(b) >= 0)
    IN  IF errors = "strict" /\ defined # bs
        THEN [ok |-> FALSE, text |-> <<>>]
        ELSE [ok |-> TRUE,
              text |-> [i \in 1..Len(defined) |-> Cp1252Char(defined[i])]]

Decode(bs, encoding, errors) ==
    IF encoding = "utf-8" THEN Utf8Decode(bs, errors)
    ELSE IF encoding = "ascii" THEN AsciiDecode(bs, errors)
    ELSE IF encoding = "cp1252" THEN Cp1252Decode(bs, errors)
    ELSE Latin1Decode(bs, errors)

----------------------------------------------------------------------------
(* calculate_similarity: case-insensitive Levenshtein similarity           *)

Min3(a, b, c) == Min2(a, Min2(b, c))

(* One row of the dynamic-programming table: cur holds dp[i][0..j-1]       *)
RECURSIVE FillRow(_, _, _, _)
FillRow(prev, c, s2, cur) ==
    LET j == Len(cur)
    IN  IF j > Len(s2) THEN cur
        ELSE LET v == IF c = s2[j]
                      THEN prev[j]
                      ELSE Min3(prev[j + 1], cur[j], prev[j]) + 1
             IN  FillRow(prev, c, s2, Append(cur, v))

(* The rows dp[0..m], one after the other: every row is as long as the    *)
(* row before it, len(s2) + 1                                              *)
RECURSIVE LastRow(_, _, _, _)
LastRow(s1, s2, i, prev) ==
    IF i > Len(s1) THEN prev
    ELSE LET cur == FillRow(prev, s1[i], s2, <<i>>)
         IN  IF Len(cur) = Len(prev) THEN LastRow(s1, s2, i + 1, cur) ELSE cur

edit_distance(s1, s2) ==
    LastRow(s1, s2, 1, [j \in 1..(Len(s2) + 1) |-> j - 1])[Len(s2) + 1]

(* variant of calculate_similarity: only the second string is lower-cased *)
calculate_similarity_one_lower(str1, str2) ==
    IF str1 = <<>> \/ str2 = <<>> THEN RZero
    ELSE LET distance == edit_distance(str1, lower(str2))
             max_len == Max2(Len(str1), Len(str2))
             similarity == R(max_len - distance, max_len)
         IN  RMax(RZero, similarity)

(* variant of calculate_similarity: normalised by the first string's length *)
calculate_similarity_first_len(str1, str2) ==
    IF str1 = <<>> \/ str2 = <<>> THEN RZero
    ELSE LET distance == edit_distance(lower(str1), lower(str2))
             max_len == Len(str1)
             similarity == R(max_len - distance, max_len)
         IN  RMax(RZero, similarity)

calculate_similarity(str1, str2) ==
    IF str1 = <<>> \/ str2 = <<>> THEN RZero
    ELSE LET distance == edit_distance(lower(str1), lower(str2))
             max_len == Max2(Len(str1), Len(str2))
             similarity == R(max_len - distance, max_len)
         IN  RMax(RZero, similarity)

----------------------------------------------------------------------------
(* bytes_to_text_smart: (decoded_text, encoding_used, confidence)          *)

encodings == <<"utf-8", "ascii", "latin-1", "cp1252", "iso-8859-1">>

PrintableCount(text) == Cardinality({i \in 1..Len(text) : isprintable(text[i])})

printable_ratio(text) ==
    IF text = <<>> THEN RZero ELSE R(PrintableCount(text), Len(text))

TextResult(text, encoding, confidence) ==
    [text |-> Some(text), encoding |-> encoding, confidence |-> confidence]

(* first loop: strict decoding, accepted above 70% printable characters *)
RECURSIVE StrictPass(_, _)
StrictPass(data_bytes, k) ==
    IF k > Len(encodings) THEN [found |-> FALSE]
    ELSE LET d == Decode(data_bytes, encodings[k], "strict")
         IN  IF d.ok /\ RLt(R(7, 10), printable_ratio(d.text))
             THEN [found |-> TRUE,
                   res |-> TextResult(d.text, encodings[k], printable_ratio(d.text))]
             ELSE StrictPass(data_bytes, k + 1)

(* second loop: errors='ignore', first non-empty text, confidence halved *)
RECURSIVE IgnorePass(_, _)
IgnorePass(data_bytes, k) ==
    IF k > Len(encodings) THEN [found |-> FALSE]
    ELSE LET d == Decode(data_bytes, encodings[k], "ignore")
         IN  IF d.text # <<>>
             THEN [found |-> TRUE,
                   res |-> TextResult(d.text, encodings[k] \o "(ignore)",
                                      RMul(printable_ratio(d.text), R(1, 2)))]
             ELSE IgnorePass(data_bytes, k + 1)

(* variant of bytes_to_text_smart: without the lossy fallbacks *)
bytes_to_text_smart_strict_only(data_bytes) ==
    IF data_bytes = <<>>
    THEN [text |-> NoText, encoding |-> "None", confidence |-> RZero]
    ELSE LET p1 == StrictPass(data_bytes, 1)
         IN  IF p1.found THEN p1.res
             ELSE [text |-> NoText, encoding |-> "None", confidence |-> RZero]

bytes_to_text_smart(data_bytes) ==
    IF data_bytes = <<>>
    THEN [text |-> NoText, encoding |-> "None", confidence |-> RZero]
    ELSE LET p1 == StrictPass(data_bytes, 1)
             p2 == IgnorePass(data_bytes, 1)
         IN  IF p1.found THEN p1.res
             ELSE IF p2.found THEN p2.res
             ELSE TextResult(Utf8Decode(data_bytes, "replace").text,
                             "utf-8(replace)", R(3, 10))

----------------------------------------------------------------------------
(* fuzzy_watermark_match: (is_match, similarity_score, match_reason)       *)

similarity_threshold == R(6, 10)

CleanKeep(c) == isalnum(c) \/ c = 95 \/ isspace(c) \/ c = 45 \/ c = 46

clean_text(text) == strip(SelectSeq(text, CleanKeep))

AllAlnum(s) == s # <<>> /\ \A i \in 1..Len(s) : isalnum(s[i])

(* the 3-character alphanumeric substrings of the lower-cased expected text *)
Keywords(expected) ==
    LET el == lower(expected)
        all == [i \in 1..(Len(el) - 2) |-> SubSeq(el, i, i + 2)]
    IN  SelectSeq(all, AllAlnum)

keyword_ratio(expected, decoded) ==
    LET keywords == Keywords(expected)
        dl == lower(decoded)
        matched == Cardinality({i \in 1..Len(keywords) : Contains(dl, keywords[i])})
    IN  R(matched, Len(keywords))

(* the keys of char_frequency(text) *)
char_frequency(text) == {c \in CharSet(lower(text)) : isalnum(c)}

freq_similarity(expected, decoded) ==
    LET ef == char_frequency(expected)
        df == char_frequency(decoded)
    IN  R(Cardinality(ef \cap df), Max2(Cardinality(ef), Cardinality(df)))

Match(is_match, score, reason) ==
    [is_match |-> is_match, similarity |-> score, reason |-> reason]

(* variant of fuzzy_watermark_match: rule 3 is tried before rule 2 *)
fuzzy_watermark_match_similarity_first(expected, decoded) ==
    LET expected_clean == clean_text(expected)
        decoded_clean == clean_text(decoded)
        similarity == calculate_similarity(expected, decoded)
        clean_similarity == calculate_similarity(expected_clean, decoded_clean)
        ef == char_frequency(expected)
        df == char_frequency(decoded)
    IN  IF decoded = <<>> THEN Match(FALSE, RZero, "empty")
        ELSE IF decoded = expected THEN Match(TRUE, ROne, "exact")
        ELSE IF RLe(similarity_threshold, similarity)
             THEN Match(TRUE, similarity, "similarity")
        ELSE IF decoded_clean = expected_clean /\ expected_clean # <<>>
             THEN Match(TRUE, R(95, 100), "clean_exact")
        ELSE IF /\ expected_clean # <<>>
                /\ decoded_clean # <<>>
                /\ RLe(similarity_threshold, clean_similarity)
             THEN Match(TRUE, clean_similarity, "clean_similarity")
        ELSE IF /\ Len(expected) >= 4
                /\ Keywords(expected) # <<>>
                /\ RLe(R(1, 2), keyword_ratio(expected, decoded))
             THEN Match(TRUE, RMul(keyword_ratio(expected, decoded), R(8, 10)),
                        "keyword")
        ELSE IF /\ ef # {}
                /\ df # {}
                /\ ef \cap df # {}
                /\ RLe(R(6, 10), freq_similarity(expected, decoded))
             THEN Match(TRUE, RMul(freq_similarity(expected, decoded), R(7, 10)),
                        "char_frequency")
        ELSE IF Abs(Len(expected) - Len(decoded)) <= 2 /\ RLe(R(4, 10), similarity)
             THEN Match(TRUE, RMul(similarity, R(8, 10)), "length")
        ELSE Match(FALSE, similarity, "no_match")

(* variant of fuzzy_watermark_match: rule 7 returns the raw similarity *)
fuzzy_watermark_match_length_raw(expected, decoded) ==
    LET expected_clean == clean_text(expected)
        decoded_clean == clean_text(decoded)
        similarity == calculate_similarity(expected, decoded)
        clean_similarity == calculate_similarity(expected_clean, decoded_clean)
        ef == char_frequency(expected)
        df == char_frequency(decoded)
    IN  IF decoded = <<>> THEN Match(FALSE, RZero, "empty")
        ELSE IF decoded = expected THEN Match(TRUE, ROne, "exact")
        ELSE IF decoded_clean = expected_clean /\ expected_clean # <<>>
             THEN Match(TRUE, R(95, 100), "clean_exact")
        ELSE IF RLe(similarity_threshold, similarity)
             THEN Match(TRUE, similarity, "similarity")
        ELSE IF /\ expected_clean # <<>>
                /\ decoded_clean # <<>>
                /\ RLe(similarity_threshold, clean_similarity)
             THEN Match(TRUE, clean_similarity, "clean_similarity")
        ELSE IF /\ Len(expected) >= 4
                /\ Keywords(expected) # <<>>
                /\ RLe(R(1, 2), keyword_ratio(expected, decoded))
             THEN Match(TRUE, RMul(keyword_ratio(expected, decoded), R(8, 10)),
                        "keyword")
        ELSE IF /\ ef # {}
                /\ df # {}
                /\ ef \cap df # {}
                /\ RLe(R(6, 10), freq_similarity(expected, decoded))
             THEN Match(TRUE, RMul(freq_similarity(expected, decoded), R(7, 10)),
                        "char_frequency")
        ELSE IF Abs(Len(expected) - Len(decoded)) <= 2 /\ RLe(R(4, 10), similarity)
             THEN Match(TRUE, similarity, "length")
        ELSE Match(FALSE, similarity, "no_match")

(* variant of fuzzy_watermark_match: rule 7 is missing *)
fuzzy_watermark_match_no_length(expected, decoded) ==
    LET expected_clean == clean_text(expected)
        decoded_clean == clean_text(decoded)
        similarity == calculate_similarity(expected, decoded)
        clean_similarity == calculate_similarity(expected_clean, decoded_clean)
        ef == char_frequency(expected)
        df == char_frequency(decoded)
    IN  IF decoded = <<>> THEN Match(FALSE, RZero, "empty")
        ELSE IF decoded = expected THEN Match(TRUE, ROne, "exact")
        ELSE IF decoded_clean = expected_clean /\ expected_clean # <<>>
             THEN Match(TRUE, R(95, 100), "clean_exact")
        ELSE IF RLe(similarity_threshold, similarity)
             THEN Match(TRUE, similarity, "similarity")
        ELSE IF /\ expected_clean # <<>>
                /\ decoded_clean # <<>>
                /\ RLe(similarity_threshold, clean_similarity)
             THEN Match(TRUE, clean_similarity, "clean_similarity")
        ELSE IF /\ Len(expected) >= 4
                /\ Keywords(expected) # <<>>
                /\ RLe(R(1, 2), keyword_ratio(expected, decoded))
             THEN Match(TRUE, RMul(keyword_ratio(expected, decoded), R(8, 10)),
                        "keyword")
        ELSE IF /\ ef # {}
                /\ df # {}
                /\ ef \cap df # {}
                /\ RLe(R(6, 10), freq_similarity(expected, decoded))
             THEN Match(TRUE, RMul(freq_similarity(expected, decoded), R(7, 10)),
                        "char_frequency")
        ELSE Match(FALSE, similarity, "no_match")

fuzzy_watermark_match(expected, decoded) ==
    LET expected_clean == clean_text(expected)
        decoded_clean == clean_text(decoded)
        similarity == calculate_similarity(expected, decoded)
        clean_similarity == calculate_similarity(expected_clean, decoded_clean)
        ef == char_frequency(expected)
        df == char_frequency(decoded)
    IN  IF decoded = <<>> THEN Match(FALSE, RZero, "empty")
        ELSE IF decoded = expected THEN Match(TRUE, ROne, "exact")
        ELSE IF decoded_clean = expected_clean /\ expected_clean # <<>>
             THEN Match(TRUE, R(95, 100), "clean_exact")
        ELSE IF RLe(similarity_threshold, similarity)
             THEN Match(TRUE, similarity, "similarity")
        ELSE IF /\ expected_clean # <<>>
                /\ decoded_clean # <<>>
                /\ RLe(similarity_threshold, clean_similarity)
             THEN Match(TRUE, clean_similarity, "clean_similarity")
        ELSE IF /\ Len(expected) >= 4
                /\ Keywords(expected) # <<>>
                /\ RLe(R(1, 2), keyword_ratio(expected, decoded))
             THEN Match(TRUE, RMul(keyword_ratio(expected, decoded), R(8, 10)),
                        "keyword")
        ELSE IF /\ ef # {}
                /\ df # {}
                /\ ef \cap df # {}
                /\ RLe(R(6, 10), freq_similarity(expected, decoded))
             THEN Match(TRUE, RMul(freq_similarity(expected, decoded), R(7, 10)),
                        "char_frequency")
        ELSE IF Abs(Len(expected) - Len(decoded)) <= 2 /\ RLe(R(4, 10), similarity)
             THEN Match(TRUE, RMul(similarity, R(8, 10)), "length")
        ELSE Match(FALSE, similarity, "no_match")

----------------------------------------------------------------------------
(* create_watermark_signature and match_by_signature                       *)

(* the longest prefix of s made of ASCII letters (digits = FALSE) or of     *)
(* decimal digits (digits = TRUE)                                          *)
RECURSIVE RunPrefix(_, _)
RunPrefix(s, digits) ==
    IF s = <<>> \/ ~(IF digits THEN IsDigit(s[1]) ELSE IsAsciiLetter(s[1]))
    THEN <<>>
    ELSE <<s[1]>> \o RunPrefix(Tail(s), digits)

(* re.findall(r'[a-zA-Z]+|\d+', text) *)
RECURSIVE FindRuns(_)
FindRuns(text) ==
    IF text = <<>> THEN <<>>
    ELSE LET run == IF IsAsciiLetter(text[1]) THEN RunPrefix(text, FALSE)
                    ELSE RunPrefix(text, TRUE)
         IN  IF run = <<>> THEN FindRuns(Tail(text))
             ELSE <<run>> \o FindRuns(SubSeq(text, Len(run) + 1, Len(text)))

(* [p.lower() for p in patterns if len(p) >= 2] *)
Patterns(text) ==
    LET long == SelectSeq(FindRuns(text), LAMBDA p : Len(p) >= 2)
    IN  [i \in 1..Len(long) |-> lower(long[i])]

(* the content hashes and the frequency table of the signature are never   *)
(* read by match_by_signature and are left out                             *)
create_watermark_signature(text) ==
    [text |-> text,
     length |-> Len(text),
     byte_length |-> Len(Utf8Encode(text)),
     bit_length |-> Len(Utf8Encode(text)) * 8,
     char_set |-> CharSet(lower(text)),
     patterns |-> Patterns(text)]

length_part(sig, decoded_text) ==
    LET diff == Abs(Len(decoded_text) - sig.length)
        longest == Max2(Len(decoded_text), sig.length)
    IN  IF diff <= 2 THEN RMul(R(longest - diff, longest), R(2, 10)) ELSE RZero

char_part(sig, decoded_text) ==
    LET char_overlap == Cardinality(sig.char_set \cap CharSet(lower(decoded_text)))
    IN  IF char_overlap > 0
        THEN RMul(R(char_overlap, Cardinality(sig.char_set)), R(3, 10))
        ELSE RZero

pattern_part(sig, decoded_text) ==
    LET decoded_patterns == Patterns(decoded_text)
        hit(ep) == \E k \in 1..Len(decoded_patterns) :
                       \/ Contains(decoded_patterns[k], ep)
                       \/ Contains(ep, decoded_patterns[k])
        pattern_matches ==
            Cardinality({i \in 1..Len(sig.patterns) : hit(sig.patterns[i])})
    IN  IF sig.patterns # <<>> /\ pattern_matches > 0
        THEN RMul(R(pattern_matches, Len(sig.patterns)), R(4, 10))
        ELSE RZero

(* variant of byte_part: the byte agreement counts whatever its size *)
byte_part_unconditional(sig, decoded_bytes) ==
    LET expected_bytes == Utf8Encode(sig.text)
        min_len == Min2(Len(decoded_bytes), Len(expected_bytes))
        matching_bytes ==
            Cardinality({i \in 1..min_len : decoded_bytes[i] = expected_bytes[i]})
    IN  IF decoded_bytes # <<>> /\ min_len > 0
        THEN RMul(R(matching_bytes, min_len), R(1, 10))
        ELSE RZero

byte_part(sig, decoded_bytes) ==
    LET expected_bytes == Utf8Encode(sig.text)
        min_len == Min2(Len(decoded_bytes), Len(expected_bytes))
        matching_bytes ==
            Cardinality({i \in 1..min_len : decoded_bytes[i] = expected_bytes[i]})
        byte_similarity == R(matching_bytes, min_len)
    IN  IF decoded_bytes # <<>> /\ min_len > 0 /\ RLt(R(3, 10), byte_similarity)
        THEN RMul(byte_similarity, R(1, 10))
        ELSE RZero

match_by_signature(sig, decoded_bytes, decoded_text) ==
    IF decoded_text = <<>> THEN Match(FALSE, RZero, "no_text")
    ELSE LET total_score ==
                 RAdd(RAdd(length_part(sig, decoded_text), char_part(sig, decoded_text)),
                      RAdd(pattern_part(sig, decoded_text), byte_part(sig, decoded_bytes)))
         IN  Match(RLe(R(4, 10), total_score), total_score, "signature")

----------------------------------------------------------------------------
(* Bounds and input domains of the model                                   *)

(* texts, written as code points *)
Hello == <<72, 101, 108, 108, 111>>

(* expected texts handed to detect: none, the empty string, "Hello" *)
Watermarks == {NoText, Some(<<>>), Some(Hello)}

(* length hints handed to detect: none, 0, negative, the base length of    *)
(* "Hello", above 512                                                      *)
Hints == {NoInt, Some(0), Some(-8), Some(40), Some(600)}

(* payloads of the external decoder: "H1e1l1l1o" (matched by the cascade   *)
(* only), "el###" (matched by the signature only), "Hello\0\0" (70% < 5/7  *)
(* printable), the noise "H#9!", and the empty payload                     *)
FuzzyOnly == <<72, 49, 101, 49, 108, 49, 108, 49, 111>>

SigOnly == <<101, 108, 35, 35, 35>>

HelloNul == <<72, 101, 108, 108, 111, 0, 0>>

HNoise == <<72, 35, 57, 33>>

DecBytes == {Hello, FuzzyOnly, SigOnly, HelloNul, HNoise, <<>>}

(* what one call of the external decoder can do: return None, raise, or    *)
(* return a payload                                                        *)
DecNone == [kind |-> "none", bytes |-> <<>>]

DecRaise == [kind |-> "raise", bytes |-> <<>>]

DecPayload(b) == [kind |-> "bytes", bytes |-> b]

Outcomes == {DecNone, DecRaise} \cup {DecPayload(b) : b \in DecBytes}

(* what the decoder answers on an image at the lengths where nothing       *)
(* particular is embedded: nothing, noise, or a damaged payload            *)
Backgrounds == {DecNone, DecPayload(HNoise), DecPayload(FuzzyOnly)}

(* the watermark of the security test and the expected texts it tries:     *)
(* the watermark itself, lower case, last character removed, a digit       *)
(* appended, 0 replaced by O, double quotes added, the empty string, an    *)
(* unrelated word                                                          *)
SocialNetwork0 == <<83, 111, 99, 105, 97, 108, 78, 101, 116, 119, 111, 114, 107, 48>>

HackVariants ==
    { <<115, 111, 99, 105, 97, 108, 110, 101, 116, 119, 111, 114, 107, 48>>,
      <<83, 111, 99, 105, 97, 108, 78, 101, 116, 119, 111, 114, 107>>,
      <<83, 111, 99, 105, 97, 108, 78, 101, 116, 119, 111, 114, 107, 48, 49>>,
      <<83, 111, 99, 105, 97, 108, 78, 101, 116, 119, 111, 114, 107, 79>>,
      <<34, 83, 111, 99, 105, 97, 108, 78, 101, 116, 119, 111, 114, 107, 48, 34>>,
      <<>>,
      <<97, 100, 109, 105, 110>> }

(* "S0cialNetw0rk0": the watermark as a damaged image gives it back *)
S0cialNetw0rk0 == <<83, 48, 99, 105, 97, 108, 78, 101, 116, 119, 48, 114, 107, 48>>

(* what can be embedded in an image: nothing, or a payload that the        *)
(* decoder gives back at the payload's own bit length                      *)
NotEmbedded == [length |-> 0, bytes |-> <<>>]

Embeddings ==
    {NotEmbedded} \cup {[length |-> 8 * Len(b), bytes |-> b] :
                            b \in {SocialNetwork0, S0cialNetw0rk0}}

(* every expected text and every payload that a call of the model scores *)
ScoredWatermarks ==
    Watermarks \cup {Some(SocialNetwork0)} \cup {Some(v) : v \in HackVariants}

ScoredBytes == DecBytes \cup {SocialNetwork0, S0cialNetw0rk0}

(* number of probed lengths at which the decoder may answer something else *)
(* than the image's background outcome                                     *)
MaxDeviations == 1

----------------------------------------------------------------------------
(* detect_watermark_robust as a state machine                              *)

VARIABLES
    pc,                \* position of the call in progress, "idle" before it
    watermark,         \* argument watermark: optional text
    length,            \* argument length: optional integer
    image,             \* what cv2.imread and the decoder make of the file
    test_lengths,      \* candidate lengths, in probe order
    pos,               \* index in test_lengths of the next probe
    decoder_log,       \* every call of the external decoder and its outcome
    decoding_attempts, \* debug_info['decoding_attempts']
    best_matches,      \* debug_info['best_matches']
    best_result,       \* optional tuple best_result
    best_confidence,   \* best_confidence
    result,            \* the value returned to the caller
    max_length,        \* argument max_length of extract_any_watermark
    found_watermarks,  \* found_watermarks of extract_any_watermark
    caller,            \* the command or request handler around the engine
    frames             \* local variables of the calls running side by side

vars == <<pc, watermark, length, image, test_lengths, pos, decoder_log,
          decoding_attempts, best_matches, best_result, best_confidence, result,
          max_length, found_watermarks, caller, frames>>

(* Python truth value of the arguments: "if watermark:", "if length:" *)
Truthy(opt) == opt.some /\ opt.v # <<>>

TruthyInt(opt) == opt.some /\ opt.v # 0

(* variant of common_lengths: a short default probe set *)
common_lengths_short == <<32, 64, 16, 8>>

common_lengths == <<32, 64, 96, 112, 128, 160, 192, 224, 256>>

(* range(-32, 33, 8) *)
offsets == [k \in 1..9 |-> -32 + 8 * (k - 1)]

(* sorted(list(set(xs))) *)
RECURSIVE SortedSet(_)
SortedSet(S) ==
    IF S = {} THEN <<>>
    ELSE LET m == CHOOSE x \in S : \A y \in S : x <= y
         IN  <<m>> \o SortedSet(S \ {m})

(* variant of InBounds: the upper end of the range is left out *)
InBoundsExclusive(new_length) == 8 <= new_length /\ new_length < 512

InBounds(new_length) == 8 <= new_length /\ new_length <= 512

(* lines 320-338: the candidate lengths of one call *)
TestLengths(wm, hint) ==
    LET base_length == Len(Utf8Encode(wm.v)) * 8
        sweep == IF Truthy(wm)
                 THEN SelectSeq([k \in 1..9 |-> base_length + offsets[k]], InBounds)
                 ELSE <<>>
        hinted == IF TruthyInt(hint) THEN <<hint.v>> \o sweep ELSE sweep
        fresh == SelectSeq(common_lengths, LAMBDA cl : cl \notin CharSet(hinted))
    IN  SortedSet(CharSet(hinted \o fresh))

HexDigit(n) == IF n < 10 THEN 48 + n ELSE 87 + n

(* bytes.hex() *)
RECURSIVE Hex(_)
Hex(bs) ==
    IF bs = <<>> THEN <<>>
    ELSE <<HexDigit(bs[1] \div 16), HexDigit(bs[1] % 16)>> \o Hex(Tail(bs))

NoMatch == None(Match(FALSE, RZero, "None"))

NoBest == None([confidence |-> RZero, decoded_text |-> <<>>, used_length |-> 0,
                match_method |-> "None", match_reason |-> "None"])

(* variant of ErrorAttempt: the failed probe is recorded as a success *)
ErrorAttemptSuccess(test_length) ==
    [length |-> test_length, success |-> TRUE, error |-> TRUE,
     raw_bytes |-> NoText, decoded_text |-> NoText, encoding |-> "None",
     fuzzy_match |-> NoMatch, signature_match |-> NoMatch]

(* the record appended by the except branch, lines 413-417 *)
ErrorAttempt(test_length) ==
    [length |-> test_length, success |-> FALSE, error |-> TRUE,
     raw_bytes |-> NoText, decoded_text |-> NoText, encoding |-> "None",
     fuzzy_match |-> NoMatch, signature_match |-> NoMatch]

(* attempt_info as initialised at lines 349-357 *)
EmptyAttempt(test_length) ==
    [length |-> test_length, success |-> FALSE, error |-> FALSE,
     raw_bytes |-> NoText, decoded_text |-> NoText, encoding |-> "None",
     fuzzy_match |-> NoMatch, signature_match |-> NoMatch]

(* variant of combined_confidence: the signature score carries no extra    *)
(* weight                                                                  *)
combined_confidence_unweighted(fuzzy_similarity, sig_similarity, text_confidence) ==
    RMax(RMul(fuzzy_similarity, text_confidence),
         RMul(sig_similarity, text_confidence))

(* combined_confidence, lines 390-393 *)
combined_confidence(fuzzy_similarity, sig_similarity, text_confidence) ==
    RMax(RMul(fuzzy_similarity, text_confidence),
         RMul(RMul(sig_similarity, text_confidence), R(12, 10)))

(* variant of IsMatch: both scorers have to agree *)
IsMatchBoth(is_fuzzy_match, is_sig_match) == is_fuzzy_match /\ is_sig_match

(* is_match of line 388 *)
IsMatch(is_fuzzy_match, is_sig_match) == is_fuzzy_match \/ is_sig_match

(* variant of IsBetter: an equal confidence replaces the best result too *)
IsBetterOrEqual(is_match, confidence, best, best_conf) ==
    is_match /\ (~best.some \/ RLe(best_conf, confidence))

(* the condition of line 395 for replacing the best result *)
IsBetter(is_match, confidence, best, best_conf) ==
    is_match /\ (~best.some \/ RLt(best_conf, confidence))

(* variant of Scorable: the scorers run without an expected text as well *)
ScorableAlways(wm, decoded_text) == decoded_text.some /\ decoded_text.v # <<>>

(* "if watermark and decoded_text:", line 368 *)
Scorable(wm, decoded_text) ==
    Truthy(wm) /\ decoded_text.some /\ decoded_text.v # <<>>

(* what lines 359-393 compute from the expected text and the decoded bytes *)
Scoring(wm, decoded_bytes) ==
    LET Score(rec) ==
            LET scored == Scorable(wm, rec.text)
                fuzzy == fuzzy_watermark_match(wm.v, rec.text.v)
                sig == match_by_signature(create_watermark_signature(wm.v),
                                          decoded_bytes, rec.text.v)
            IN  [raw_bytes |-> Some(Hex(decoded_bytes)),
                 decoded_text |-> rec.text,
                 encoding |-> rec.encoding,
                 text_confidence |-> rec.confidence,
                 fuzzy_match |-> IF scored THEN Some(fuzzy) ELSE NoMatch,
                 signature_match |-> IF scored THEN Some(sig) ELSE NoMatch,
                 combined_confidence |->
                     IF scored
                     THEN combined_confidence(fuzzy.similarity, sig.similarity,
                                              rec.confidence)
                     ELSE RZero]
    IN  Score(bytes_to_text_smart(decoded_bytes))

(* Scoring tabulated over the inputs of the model *)
ScoringTable == [wm \in ScoredWatermarks, b \in ScoredBytes |-> Scoring(wm, b)]

(* attempt_info after a decode that returned decoded_bytes, lines 359-385 *)
ScoredAttempt(wm, test_length, decoded_bytes) ==
    LET Filled(sc) ==
            [length |-> test_length, success |-> TRUE, error |-> FALSE,
             raw_bytes |-> sc.raw_bytes,
             decoded_text |-> sc.decoded_text,
             encoding |-> sc.encoding,
             fuzzy_match |-> sc.fuzzy_match,
             signature_match |-> sc.signature_match]
    IN  Filled(ScoringTable[wm, decoded_bytes])

Init ==
    /\ pc = "idle"
    /\ watermark = NoText
    /\ length = NoInt
    /\ image = [readable |-> TRUE, background |-> DecNone]
    /\ test_lengths = <<>>
    /\ pos = 1
    /\ decoder_log = <<>>
    /\ decoding_attempts = <<>>
    /\ best_matches = <<>>
    /\ best_result = NoBest
    /\ best_confidence = RZero
    /\ result = [has_watermark |-> None(FALSE), confidence |-> None(RZero),
                 decoded_text |-> NoText, used_length |-> NoInt,
                 diagnostics |-> <<>>]
    /\ max_length = NoInt
    /\ found_watermarks = <<>>
    /\ caller = [stage |-> "none"]
    /\ frames = <<>>

(* lines 302-342: the call on a readable image, up to the probe loop *)
Call(wm, hint, bg) ==
    /\ pc = "idle"
    /\ watermark' = wm
    /\ length' = hint
    /\ image' = [readable |-> TRUE, background |-> bg]
    /\ test_lengths' = TestLengths(wm, hint)
    /\ pc' = "probing"
    /\ UNCHANGED <<pos, decoder_log, decoding_attempts, best_matches,
                   best_result, best_confidence, result, max_length,
                   found_watermarks, caller, frames>>

(* variant of CallUnreadable: the result of cv2.imread is not checked and  *)
(* the call goes on to the probe loop                                      *)
CallUnreadableProceeds(wm, hint) ==
    /\ pc = "idle"
    /\ watermark' = wm
    /\ length' = hint
    /\ image' = [readable |-> FALSE, background |-> DecNone]
    /\ test_lengths' = TestLengths(wm, hint)
    /\ pc' = "probing"
    /\ UNCHANGED <<pos, decoder_log, decoding_attempts, best_matches,
                   best_result, best_confidence, result, max_length,
                   found_watermarks, caller, frames>>

(* lines 302-304: cv2.imread returns None and ValueError is raised *)
CallUnreadable(wm, hint) ==
    /\ pc = "idle"
    /\ watermark' = wm
    /\ length' = hint
    /\ image' = [readable |-> FALSE, background |-> DecNone]
    /\ pc' = "raised"
    /\ UNCHANGED <<test_lengths, pos, decoder_log, decoding_attempts,
                   best_matches, best_result, best_confidence, result,
                   max_length, found_watermarks, caller, frames>>

Deviations == Cardinality({k \in 1..Len(decoder_log) :
                              decoder_log[k].outcome # image.background})

(* one iteration of the loop of lines 344-417 *)
Probe(outcome) ==
    /\ pc = "probing"
    /\ pos <= Len(test_lengths)
    /\ outcome = image.background \/ Deviations < MaxDeviations
    /\ LET Record(test_length, attempt, confidence) ==
               LET scored == attempt.fuzzy_match.some
                   is_fuzzy_match == attempt.fuzzy_match.v.is_match
                   is_sig_match == attempt.signature_match.v.is_match
                   is_match == IsMatch(is_fuzzy_match, is_sig_match)
                   better == scored /\ IsBetter(is_match, confidence, best_result,
                                                best_confidence)
                   new_best ==
                       [confidence |-> confidence,
                        decoded_text |-> attempt.decoded_text.v,
                        used_length |-> test_length,
                        match_method |-> IF is_fuzzy_match THEN "fuzzy"
                                         ELSE "signature",
                        match_reason |-> IF is_fuzzy_match
                                         THEN attempt.fuzzy_match.v.reason
                                         ELSE attempt.signature_match.v.reason]
               IN  /\ decoder_log' =
                          Append(decoder_log,
                                 [length |-> test_length, outcome |-> outcome])
                   /\ decoding_attempts' = Append(decoding_attempts, attempt)
                   /\ best_result' = IF better THEN Some(new_best) ELSE best_result
                   /\ best_confidence' = IF better THEN confidence
                                         ELSE best_confidence
                   /\ best_matches' = IF better THEN Append(best_matches, new_best)
                                      ELSE best_matches
       IN  Record(test_lengths[pos],
                  IF outcome.kind = "raise" THEN ErrorAttempt(test_lengths[pos])
                  ELSE IF outcome.kind = "none" THEN EmptyAttempt(test_lengths[pos])
                  ELSE ScoredAttempt(watermark, test_lengths[pos], outcome.bytes),
                  ScoringTable[watermark, outcome.bytes].combined_confidence)
    /\ pos' = pos + 1
    /\ UNCHANGED <<pc, watermark, length, image, test_lengths, result,
                   max_length, found_watermarks, caller, frames>>

(* variant of FirstDecoded: only the first attempt is looked at *)
FirstDecodedOnlyFirst(attempts) ==
    IF attempts = <<>> THEN NoText
    ELSE IF attempts[1].success /\ attempts[1].decoded_text.some
            /\ attempts[1].decoded_text.v # <<>>
         THEN attempts[1].decoded_text
         ELSE NoText

(* first attempt with success and a non-empty decoded_text, lines 428-430 *)
RECURSIVE FirstDecoded(_)
FirstDecoded(attempts) ==
    IF attempts = <<>> THEN NoText
    ELSE IF attempts[1].success /\ attempts[1].decoded_text.some
            /\ attempts[1].decoded_text.v # <<>>
         THEN attempts[1].decoded_text
         ELSE FirstDecoded(Tail(attempts))

(* lines 420-425: the tuple returned when a best result exists *)
MatchResult(best, attempts) ==
    [has_watermark |-> Some(TRUE),
     confidence |-> Some(best.confidence),
     decoded_text |-> Some(best.decoded_text),
     used_length |-> Some(best.used_length),
     diagnostics |-> attempts]

(* variant of NoMatchResult: the best similarity observed is reported *)
NoMatchResultBestSimilarity(attempts) ==
    LET sims == {attempts[k].fuzzy_match.v.similarity : k \in 1..Len(attempts)}
        best == IF sims = {} THEN RZero
                ELSE CHOOSE x \in sims : \A y \in sims : RLe(y, x)
    IN  [has_watermark |-> Some(FALSE),
         confidence |-> Some(best),
         decoded_text |-> FirstDecoded(attempts),
         used_length |-> NoInt,
         diagnostics |-> attempts]

(* lines 427-432: the tuple returned when nothing matched *)
NoMatchResult(attempts) ==
    [has_watermark |-> Some(FALSE),
     confidence |-> Some(RZero),
     decoded_text |-> FirstDecoded(attempts),
     used_length |-> NoInt,
     diagnostics |-> attempts]

(* lines 419-432: the return after the loop *)
Return ==
    /\ pc = "probing"
    /\ pos > Len(test_lengths)
    /\ result' = IF best_result.some
                 THEN MatchResult(best_result.v, decoding_attempts)
                 ELSE NoMatchResult(decoding_attempts)
    /\ pc' = "returned"
    /\ UNCHANGED <<watermark, length, image, test_lengths, pos, decoder_log,
                   decoding_attempts, best_matches, best_result, best_confidence,
                   max_length, found_watermarks, caller, frames>>

Next ==
    \/ \E wm \in Watermarks, hint \in Hints, bg \in Backgrounds : Call(wm, hint, bg)
    \/ \E wm \in Watermarks, hint \in Hints : CallUnreadable(wm, hint)
    \/ \E outcome \in Outcomes : Probe(outcome)
    \/ Return

Spec == Init /\ [][Next]_vars

----------------------------------------------------------------------------
(* Properties of detect_watermark_robust                                   *)

Returned == pc = "returned"

(* attempt k was called a match by the cascade or by the signature scorer *)
AttemptMatched(k) ==
    /\ decoding_attempts[k].fuzzy_match.some
    /\ \/ decoding_attempts[k].fuzzy_match.v.is_match
       \/ decoding_attempts[k].signature_match.v.is_match

MatchedAttempts == {k \in 1..Len(decoding_attempts) : AttemptMatched(k)}

(* fused confidence of the scored attempt k *)
Fused(k) == ScoringTable[watermark, decoder_log[k].outcome.bytes].combined_confidence

(* attempt k decoded a payload and recovered a non-empty text from it *)
HasText(k) ==
    /\ decoding_attempts[k].success
    /\ decoding_attempts[k].decoded_text.some
    /\ decoding_attempts[k].decoded_text.v # <<>>

(* C1: the confidence detect returns for an expected text is the fused     *)
(* confidence clamped to 1.0, so it always lies in [0, 1].                 *)
C1_ConfidenceInUnitInterval ==
    (Returned /\ Truthy(watermark)) =>
        /\ result.confidence.some
        /\ RLe(RZero, result.confidence.v)
        /\ RLe(result.confidence.v, ROne)

(* C2: expected "Hello", the decoder returns the bytes of "Hello" at 40    *)
(* bits and nothing that matches at any other length: detect returns       *)
(* has-watermark true, confidence 1.0, decoded text "Hello", length 40.    *)
C2_ExactHelloScenario ==
    (/\ Returned
     /\ watermark = Some(Hello)
     /\ \E k \in 1..Len(decoder_log) :
           /\ decoder_log[k] = [length |-> 40, outcome |-> DecPayload(Hello)]
           /\ MatchedAttempts = {k})
    => /\ result.has_watermark = Some(TRUE)
       /\ result.confidence = Some(ROne)
       /\ result.decoded_text = Some(Hello)
       /\ result.used_length = Some(40)

(* C3: when some attempt matched, the returned confidence, text and length *)
(* are those of the earliest matching attempt whose fused confidence is    *)
(* the maximum over all matching attempts; a non-matching attempt is never *)
(* the one returned.                                                       *)
C3_BestIsEarliestMaximum ==
    (Returned /\ MatchedAttempts # {}) =>
        \E k \in MatchedAttempts :
            /\ \A j \in MatchedAttempts : RLe(Fused(j), Fused(k))
            /\ \A j \in MatchedAttempts : j < k => RLt(Fused(j), Fused(k))
            /\ result.confidence = Some(Fused(k))
            /\ result.decoded_text = decoding_attempts[k].decoded_text
            /\ result.used_length = Some(decoding_attempts[k].length)

(* two matching attempts share the maximal fused confidence, the earlier   *)
(* one is returned, and a non-matching attempt recovered a text as well    *)
C3_Witness ==
    /\ Returned
    /\ \E j, k \in MatchedAttempts :
          /\ j < k
          /\ Fused(j) = Fused(k)
          /\ result.confidence = Some(Fused(j))
          /\ result.used_length = Some(decoding_attempts[j].length)
    /\ \E j \in 1..Len(decoding_attempts) : ~AttemptMatched(j) /\ HasText(j)

(* C4: has-watermark is true exactly when at least one attempt was called  *)
(* a match by the cascade scorer or by the signature scorer.               *)
C4_MatchIffSomeAttemptMatched ==
    Returned =>
        /\ result.has_watermark.some
        /\ result.has_watermark.v <=> MatchedAttempts # {}

(* a match that rests on the signature scorer alone *)
C4_Witness ==
    /\ Returned
    /\ result.has_watermark = Some(TRUE)
    /\ \A k \in MatchedAttempts : ~decoding_attempts[k].fuzzy_match.v.is_match

(* C5: every candidate length is probed whatever the decoder does, and the *)
(* diagnostics hold one attempt per candidate length, in probe order, with *)
(* success = false for each failed or null probe.                          *)
C5_ProbeIsolation ==
    Returned =>
        /\ Len(decoder_log) = Len(test_lengths)
        /\ Len(result.diagnostics) = Len(test_lengths)
        /\ \A k \in 1..Len(test_lengths) :
              /\ decoder_log[k].length = test_lengths[k]
              /\ result.diagnostics[k].length = test_lengths[k]
              /\ decoder_log[k].outcome.kind \in {"none", "raise"}
                    => ~result.diagnostics[k].success

(* the decoder raised at one length and decoded a payload at a later one *)
C5_Witness ==
    /\ Returned
    /\ \E j, k \in 1..Len(decoder_log) :
          /\ j < k
          /\ decoder_log[j].outcome.kind = "raise"
          /\ decoder_log[k].outcome.kind = "bytes"
          /\ result.diagnostics[k].success

(* C6: an expected text was supplied and no attempt matched: detect returns *)
(* has-watermark false, confidence 0.0, no chosen length, all attempts as  *)
(* diagnostics, and as decoded text the text of the first successful       *)
(* attempt that recovered one, or null when there is none.                 *)
C6_NoMatchOutcome ==
    (Returned /\ Truthy(watermark) /\ MatchedAttempts = {}) =>
        /\ result.has_watermark = Some(FALSE)
        /\ result.confidence = Some(RZero)
        /\ result.used_length = NoInt
        /\ result.diagnostics = decoding_attempts
        /\ (\A k \in 1..Len(decoding_attempts) : ~HasText(k))
              => result.decoded_text = NoText
        /\ \A k \in 1..Len(decoding_attempts) :
              (HasText(k) /\ \A j \in 1..(k - 1) : ~HasText(j))
                  => result.decoded_text = decoding_attempts[k].decoded_text

(* nothing matched, the first probe failed and the returned text is the   *)
(* one a later probe recovered                                             *)
C6_Witness ==
    /\ Returned
    /\ Truthy(watermark)
    /\ MatchedAttempts = {}
    /\ ~HasText(1)
    /\ \E k \in 2..Len(decoding_attempts) :
          /\ HasText(k)
          /\ result.decoded_text = decoding_attempts[k].decoded_text

(* every probe decoded a text and none of them matched *)
AllNoise ==
    /\ decoding_attempts # <<>>
    /\ MatchedAttempts = {}
    /\ \A k \in 1..Len(decoding_attempts) :
          HasText(k) /\ decoding_attempts[k].fuzzy_match.some

(* raw edit-distance similarity the cascade reports for attempt k *)
Similarity(k) == decoding_attempts[k].fuzzy_match.v.similarity

(* C7 as stated: with noise at every probed length and no match, detect    *)
(* returns has-watermark false, the best similarity observed over the      *)
(* attempts as confidence, and the noise text of the first decode.         *)
C7_NoiseConfidenceIsBestSimilarity ==
    (Returned /\ Truthy(watermark) /\ AllNoise) =>
        /\ result.has_watermark = Some(FALSE)
        /\ \E k \in 1..Len(decoding_attempts) :
              /\ result.confidence = Some(Similarity(k))
              /\ \A j \in 1..Len(decoding_attempts) :
                    RLe(Similarity(j), Similarity(k))
        /\ result.decoded_text = decoding_attempts[1].decoded_text

(* C7 amended: with noise at every probed length and no match, detect      *)
(* returns has-watermark false, confidence 0.0 whatever similarity was     *)
(* observed, and the noise text of the first decode.                       *)
C7_NoiseConfidenceZero ==
    (Returned /\ Truthy(watermark) /\ AllNoise) =>
        /\ result.has_watermark = Some(FALSE)
        /\ result.confidence = Some(RZero)
        /\ result.decoded_text = decoding_attempts[1].decoded_text

(* noise at every length, some of it with a positive similarity *)
C7_Witness ==
    /\ Returned
    /\ Truthy(watermark)
    /\ AllNoise
    /\ \E k \in 1..Len(decoding_attempts) : RLt(RZero, Similarity(k))

(* first attempt that recovered a text, NoText when there is none *)
FirstTextReturned ==
    /\ (\A k \in 1..Len(decoding_attempts) : ~HasText(k))
          => result.decoded_text = NoText
    /\ \A k \in 1..Len(decoding_attempts) :
          (HasText(k) /\ \A j \in 1..(k - 1) : ~HasText(j))
              => result.decoded_text = decoding_attempts[k].decoded_text

ProbedLengths == [k \in 1..Len(decoder_log) |-> decoder_log[k].length]

IsPrefix(s, t) == Len(s) <= Len(t) /\ s = SubSeq(t, 1, Len(s))

NoArguments == pc \in {"probing", "returned"} /\ ~watermark.some /\ ~length.some

C10_ProbedLengthsInRange ==
    \A k \in 1..Len(decoder_log) :
        8 <= decoder_log[k].length /\ decoder_log[k].length <= 512

----------------------------------------------------------------------------
(* The candidate lengths of detect_watermark_robust for long expected      *)
(* texts: the call of lines 302-342 alone, over texts of every byte length *)
(* up to MaxTextLength                                                     *)

(* longest expected text, in characters *)
MaxTextLength == 66

Repeat(c, n) == [i \in 1..n |-> c]

(* "aaa...a" of every length, and "éé...é" (two bytes per character) *)
LongWatermarks ==
    {Some(Repeat(97, n)) : n \in 0..MaxTextLength}
        \cup {Some(Repeat(233, n)) : n \in 1..(MaxTextLength \div 2)}

(* the hints of Hints and one that is the base length of a 65-byte text *)
LengthHints == Hints \cup {Some(520)}

LengthNext ==
    \E wm \in LongWatermarks, hint \in LengthHints : Call(wm, hint, DecNone)

LengthSpec == Init /\ [][LengthNext]_vars

(* len(watermark.encode('utf-8')) * 8 of the call in progress *)
BaseLength == Len(Utf8Encode(watermark.v)) * 8

Candidates == CharSet(test_lengths)

(* C11 as stated: for every expected text of UTF-8 byte-length n the base  *)
(* length n*8 is among the candidate lengths detect probes, texts longer   *)
(* than 64 bytes included.                                                 *)
C11_BaseLengthAlwaysPresent ==
    (pc = "probing" /\ Truthy(watermark)) => BaseLength \in Candidates

(* C11 amended: for every expected text of 1 to 64 bytes the base length   *)
(* n*8 is among the candidate lengths; for a longer text the base length   *)
(* exceeds 512 and is a candidate only when it is the length hint.         *)
C11_BaseLengthPresentUpTo512 ==
    (pc = "probing" /\ Truthy(watermark)) =>
        /\ BaseLength <= 512 => BaseLength \in Candidates
        /\ BaseLength > 512 =>
              (BaseLength \in Candidates <=> length = Some(BaseLength))

(* a text of 32 two-byte characters: the base length 512 is a candidate *)
C11_Witness ==
    /\ pc = "probing"
    /\ watermark = Some(Repeat(233, 32))
    /\ BaseLength = 512
    /\ 512 \in Candidates

----------------------------------------------------------------------------
(* Probe order of detect_watermark_robust                                  *)

(* C12: when a length hint is given, the hint is the first length handed   *)
(* to the decoder, before every other candidate, and the remaining         *)
(* candidates are deduplicated and probed in ascending numeric order.      *)
C12_HintProbedFirst ==
    (pc \in {"probing", "returned"} /\ TruthyInt(length) /\ decoder_log # <<>>) =>
        /\ decoder_log[1].length = length.v
        /\ \A j, k \in 2..Len(decoder_log) :
              j < k => decoder_log[j].length < decoder_log[k].length

----------------------------------------------------------------------------
(* Direct calls of calculate_similarity, over every pair of short strings  *)

(* longest string handed to calculate_similarity *)
MaxStringLength == 3

(* the characters "a", "A" and "b" *)
SimilarityAlphabet == {97, 65, 98}

Strings(alphabet, n) == UNION {[1..k -> alphabet] : k \in 0..n}

(* calculate_similarity(str1, str2), and the call with the arguments       *)
(* exchanged                                                               *)
SimilarityCall(str1, str2) ==
    /\ pc = "idle"
    /\ result' = [str1 |-> str1, str2 |-> str2,
                  similarity |-> calculate_similarity(str1, str2),
                  exchanged |-> calculate_similarity(str2, str1)]
    /\ pc' = "similarity"
    /\ UNCHANGED <<watermark, length, image, test_lengths, pos, decoder_log,
                   decoding_attempts, best_matches, best_result, best_confidence,
                   max_length, found_watermarks, caller, frames>>

SimilarityNext ==
    \E str1, str2 \in Strings(SimilarityAlphabet, MaxStringLength) :
        SimilarityCall(str1, str2)

SimilaritySpec == Init /\ [][SimilarityNext]_vars

(* C13: the edit-distance similarity of a non-empty string with itself is  *)
(* 1.0, and the similarity of two empty strings is 0.0.                    *)
C13_SimilarityReflexive ==
    (pc = "similarity" /\ result.str1 = result.str2) =>
        /\ result.str1 # <<>> => result.similarity = ROne
        /\ result.str1 = <<>> => result.similarity = RZero

(* "Aba" compared with itself *)
C13_Witness ==
    /\ pc = "similarity"
    /\ result.str1 = <<65, 98, 97>>
    /\ result.str2 = <<65, 98, 97>>
    /\ result.similarity = ROne

(* C14: the edit-distance similarity is the same with its arguments        *)
(* exchanged, and always lies in [0, 1].                                   *)
C14_SimilaritySymmetric ==
    pc = "similarity" =>
        /\ result.similarity = result.exchanged
        /\ RLe(RZero, result.similarity)
        /\ RLe(result.similarity, ROne)

(* two strings of different lengths with a similarity strictly between 0  *)
(* and 1                                                                   *)
C14_Witness ==
    /\ pc = "similarity"
    /\ Len(result.str1) < Len(result.str2)
    /\ RLt(RZero, result.similarity)
    /\ RLt(result.similarity, ROne)
    /\ result.similarity = result.exchanged

----------------------------------------------------------------------------
(* Direct calls of fuzzy_watermark_match                                   *)

(* the characters "a", "B", "#" and " " *)
ScorerAlphabet == {97, 66, 35, 32}

(* "abcd", "ab#cd", "a#b#c#x#", "abcwxyz1", "abxy", "Hello", "H1e1l1l1o"  *)
(* and "wxyz": one recovered text per rule of the cascade for the expected *)
(* texts "abcd" and "Hello"                                                *)
ScorerTexts ==
    { <<97, 98, 99, 100>>,
      <<97, 98, 35, 99, 100>>,
      <<97, 35, 98, 35, 99, 35, 120, 35>>,
      <<97, 98, 99, 119, 120, 121, 122, 49>>,
      <<97, 98, 120, 121>>,
      Hello,
      FuzzyOnly,
      <<119, 120, 121, 122>> }

ExpectedTexts == ScorerTexts \cup Strings(ScorerAlphabet, MaxStringLength - 1)

DecodedTexts == ScorerTexts \cup Strings(ScorerAlphabet, MaxStringLength)

ScoreCall(expected, decoded) ==
    /\ pc = "idle"
    /\ result' = [expected |-> expected, decoded |-> decoded,
                  match |-> fuzzy_watermark_match(expected, decoded)]
    /\ pc' = "scored"
    /\ UNCHANGED <<watermark, length, image, test_lengths, pos, decoder_log,
                   decoding_attempts, best_matches, best_result, best_confidence,
                   max_length, found_watermarks, caller, frames>>

ScorerNext ==
    \E expected \in ExpectedTexts, decoded \in DecodedTexts :
        ScoreCall(expected, decoded)

ScorerSpec == Init /\ [][ScorerNext]_vars

Scored == pc = "scored"

(* C15: a non-empty recovered text equal to the expected text is a match   *)
(* with confidence exactly 1.0; a recovered text that differs from the     *)
(* expected text while their cleaned forms are equal and non-empty is a    *)
(* match with confidence exactly 0.95.                                     *)
C15_ExactAndCleanedExact ==
    Scored =>
        /\ (result.decoded # <<>> /\ result.decoded = result.expected)
              => /\ result.match.is_match
                 /\ result.match.similarity = ROne
        /\ (/\ result.decoded # result.expected
            /\ clean_text(result.decoded) = clean_text(result.expected)
            /\ clean_text(result.expected) # <<>>)
              => /\ result.match.is_match
                 /\ result.match.similarity = R(95, 100)

(* "ab#cd" against "abcd": not equal, cleaned forms equal, and a raw       *)
(* similarity of 0.8 that rule 3 would accept as well                      *)
C15_Witness ==
    /\ Scored
    /\ result.expected = <<97, 98, 99, 100>>
    /\ result.decoded = <<97, 98, 35, 99, 100>>
    /\ result.match = Match(TRUE, R(95, 100), "clean_exact")
    /\ RLe(similarity_threshold, calculate_similarity(result.expected, result.decoded))

(* the seven signals of the cascade for the call recorded in result, in    *)
(* rule order: whether the rule's condition is satisfied, and the          *)
(* confidence the rule assigns                                             *)
RawSimilarity == calculate_similarity(result.expected, result.decoded)

CleanSimilarity ==
    calculate_similarity(clean_text(result.expected), clean_text(result.decoded))

(* the keyword overlap, looked at for expected texts of 4 characters and   *)
(* more only                                                               *)
KeywordOverlap ==
    IF Len(result.expected) >= 4
    THEN keyword_ratio(result.expected, result.decoded)
    ELSE RZero

SignalHolds(i) ==
    CASE i = 1 -> result.decoded = result.expected
      [] i = 2 -> /\ clean_text(result.decoded) = clean_text(result.expected)
                  /\ clean_text(result.expected) # <<>>
      [] i = 3 -> RLe(R(6, 10), RawSimilarity)
      [] i = 4 -> /\ clean_text(result.expected) # <<>>
                  /\ clean_text(result.decoded) # <<>>
                  /\ RLe(R(6, 10), CleanSimilarity)
      [] i = 5 -> /\ Len(result.expected) >= 4
                  /\ Keywords(result.expected) # <<>>
                  /\ RLe(R(1, 2), KeywordOverlap)
      [] i = 6 -> /\ char_frequency(result.expected)
                         \cap char_frequency(result.decoded) # {}
                  /\ RLe(R(6, 10), freq_similarity(result.expected, result.decoded))
      [] i = 7 -> /\ Abs(Len(result.expected) - Len(result.decoded)) <= 2
                  /\ RLe(R(4, 10), RawSimilarity)

SignalConfidence(i) ==
    CASE i = 1 -> ROne
      [] i = 2 -> R(95, 100)
      [] i = 3 -> RawSimilarity
      [] i = 4 -> CleanSimilarity
      [] i = 5 -> RMul(KeywordOverlap, R(8, 10))
      [] i = 6 -> RMul(freq_similarity(result.expected, result.decoded), R(7, 10))
      [] i = 7 -> RMul(RawSimilarity, R(8, 10))

SatisfiedRules == {i \in 1..7 : SignalHolds(i)}

FirstRule(rules) == CHOOSE i \in rules : \A j \in rules : i <= j

(* C16 as stated: the returned confidence is the strongest applicable      *)
(* signal: it is at least the confidence of every rule 1-7 whose condition *)
(* is satisfied and at least the raw edit-distance similarity.             *)
C16_ConfidenceIsStrongestSignal ==
    Scored =>
        /\ \A i \in SatisfiedRules :
              RLe(SignalConfidence(i), result.match.similarity)
        /\ RLe(RawSimilarity, result.match.similarity)

(* C16 amended: for a non-empty recovered text the first satisfied rule    *)
(* fixes is_match and the returned confidence, which is the confidence of  *)
(* that rule alone, whatever later or stronger signals exist; when no rule *)
(* is satisfied the result is no match with the raw edit-distance          *)
(* similarity as confidence.                                               *)
C16_ConfidenceIsFirstRule ==
    (Scored /\ result.decoded # <<>>) =>
        LET rules == SatisfiedRules
        IN  /\ rules # {} =>
                  /\ result.match.is_match
                  /\ result.match.similarity = SignalConfidence(FirstRule(rules))
            /\ rules = {} =>
                  /\ ~result.match.is_match
                  /\ result.match.similarity = RawSimilarity

(* rule 7 is the first satisfied rule and returns less than the raw        *)
(* similarity                                                              *)
C16_Witness ==
    /\ Scored
    /\ result.decoded # <<>>
    /\ SatisfiedRules = {7}
    /\ result.match.is_match
    /\ RLt(result.match.similarity, RawSimilarity)

----------------------------------------------------------------------------
(* Direct calls of bytes_to_text_smart                                     *)

(* the bytes "H", NUL, 0x80, 0x81, 0xA9, 0xC3 and 0xFF: ASCII, a control   *)
(* character, bytes that are ill-formed UTF-8 on their own, and the        *)
(* two-byte UTF-8 sequence C3 A9                                           *)
RecoveryBytes == {72, 0, 128, 129, 169, 195, 255}

(* None, and every short byte string *)
RecoveryInputs ==
    {NoText} \cup {Some(b) : b \in Strings(RecoveryBytes, MaxStringLength)}

RecoverCall(data) ==
    /\ pc = "idle"
    /\ result' = [data_bytes |-> data, recovered |-> bytes_to_text_smart(data.v)]
    /\ pc' = "recovered"
    /\ UNCHANGED <<watermark, length, image, test_lengths, pos, decoder_log,
                   decoding_attempts, best_matches, best_result, best_confidence,
                   max_length, found_watermarks, caller, frames>>

RecoveryNext == \E data \in RecoveryInputs : RecoverCall(data)

RecoverySpec == Init /\ [][RecoveryNext]_vars

(* (None, None, 0.0) *)
NullRecovery == [text |-> NoText, encoding |-> "None", confidence |-> RZero]

(* C18: recover returns (null, null, 0.0) exactly for an empty or null     *)
(* input; for every non-empty byte string it returns a text and an         *)
(* encoding name that are not null, with a confidence in [0, 1].           *)
C18_RecoveryTotal ==
    pc = "recovered" =>
        /\ ~Truthy(result.data_bytes) <=> result.recovered = NullRecovery
        /\ Truthy(result.data_bytes) =>
              /\ result.recovered.text.some
              /\ result.recovered.encoding # "None"
              /\ RLe(RZero, result.recovered.confidence)
              /\ RLe(result.recovered.confidence, ROne)

(* the single byte NUL: no strict decoding is readable enough and the      *)
(* lossy pass returns the text with confidence 0.0                         *)
C18_Witness ==
    /\ pc = "recovered"
    /\ result.data_bytes = Some(<<0>>)
    /\ result.recovered = [text |-> Some(<<0>>), encoding |-> "utf-8(ignore)",
                           confidence |-> RZero]

----------------------------------------------------------------------------
(* extract_any_watermark as a state machine                                *)

(* test_lengths of line 482 *)
ScanCommonLengths == <<32, 64, 96, 128, 160, 192, 224, 256>>

(* range(8, stop, 8) *)
RangeBy8(stop) == {n \in 8..(stop - 1) : n % 8 = 0}

(* sorted(set(test_lengths)) of lines 482-485 *)
ScanLengths(max) ==
    SortedSet(CharSet(ScanCommonLengths) \cup RangeBy8(Min2(max, 256)))

(* max_length handed to the scan: 0, the smallest length, a multiple of 8  *)
(* below 256, a length that is no multiple of 8, and one above 256         *)
MaxLengths == {0, 8, 40, 44, 300}

(* payloads of the decoder: "AB", NUL DEL, NUL " ", the UTF-8 bytes of     *)
(* U+00E9, FF 00, and the empty payload                                    *)
ScanPayloads ==
    { <<65, 66>>, <<0, 127>>, <<0, 32>>, <<195, 169>>, <<255, 0>>, <<>> }

(* the decode of an image without watermark: all bits set, whatever the    *)
(* length                                                                  *)
DecDegenerate == [kind |-> "degenerate", bytes |-> <<>>]

ScanOutcomes ==
    {DecNone, DecRaise, DecDegenerate} \cup {DecPayload(b) : b \in ScanPayloads}

ScanBackgrounds == {DecNone, DecDegenerate, DecPayload(<<0, 127>>)}

(* the bytes the decoder returns for an outcome at a length *)
PayloadAt(outcome, len) ==
    IF outcome.kind = "degenerate" THEN Repeat(255, len \div 8) ELSE outcome.bytes

(* the characters of '\x00\xff\x7f' *)
Sentinels == {0, 255, 127}

(* variant of TextAccepted: the test for control characters is missing *)
TextAcceptedNoSentinelTest(wm_decoded_str) ==
    /\ Len(strip(wm_decoded_str)) > 0
    /\ \A i \in 1..Len(wm_decoded_str) : wm_decoded_str[i] < 128

(* the filter of lines 500-502 *)
TextAccepted(wm_decoded_str) ==
    /\ Len(strip(wm_decoded_str)) > 0
    /\ \A i \in 1..Len(wm_decoded_str) : wm_decoded_str[i] < 128
    /\ ~(\A i \in 1..Len(wm_decoded_str) : wm_decoded_str[i] \in Sentinels)

(* the filter of line 511 *)
HexAccepted(wm_decoded, len) ==
    /\ Len(Hex(wm_decoded)) > 0
    /\ Hex(wm_decoded) # Hex(Repeat(255, len \div 8))

(* "[HEX] " *)
HexPrefix == <<91, 72, 69, 88, 93, 32>>

(* what lines 497-516 append to found_watermarks for a decoded payload *)
ScanEntries(len, wm_decoded) ==
    LET Entries(decoding) ==
            IF decoding.ok
            THEN IF TextAccepted(decoding.text)
                 THEN <<[length |-> len, content |-> decoding.text,
                         raw_bytes |-> wm_decoded]>>
                 ELSE <<>>
            ELSE IF HexAccepted(wm_decoded, len)
                 THEN <<[length |-> len, content |-> HexPrefix \o Hex(wm_decoded),
                         raw_bytes |-> wm_decoded]>>
                 ELSE <<>>
    IN  Entries(Utf8Decode(wm_decoded, "strict"))

(* lines 475-485: the call on a readable image, up to the loop *)
ScanCall(max, bg) ==
    /\ pc = "idle"
    /\ max_length' = Some(max)
    /\ image' = [readable |-> TRUE, background |-> bg]
    /\ test_lengths' = ScanLengths(max)
    /\ found_watermarks' = <<>>
    /\ pc' = "scanning"
    /\ UNCHANGED <<watermark, length, pos, decoder_log, decoding_attempts,
                   best_matches, best_result, best_confidence, result,
                   caller, frames>>

(* lines 475-477: cv2.imread returns None and ValueError is raised *)
ScanUnreadable(max) ==
    /\ pc = "idle"
    /\ max_length' = Some(max)
    /\ image' = [readable |-> FALSE, background |-> DecNone]
    /\ pc' = "raised"
    /\ UNCHANGED <<watermark, length, test_lengths, pos, decoder_log,
                   decoding_attempts, best_matches, best_result,
                   best_confidence, result, found_watermarks, caller, frames>>

(* one iteration of the loop of lines 485-515 *)
ScanProbe(outcome) ==
    /\ pc = "scanning"
    /\ pos <= Len(test_lengths)
    /\ test_lengths[pos] <= max_length.v
    /\ outcome = image.background \/ Deviations < MaxDeviations
    /\ decoder_log' = Append(decoder_log,
                             [length |-> test_lengths[pos], outcome |-> outcome])
    /\ found_watermarks' =
           IF outcome.kind \in {"none", "raise"} THEN found_watermarks
           ELSE found_watermarks
                    \o ScanEntries(test_lengths[pos],
                                   PayloadAt(outcome, test_lengths[pos]))
    /\ pos' = pos + 1
    /\ UNCHANGED <<pc, watermark, length, image, test_lengths,
                   decoding_attempts, best_matches, best_result,
                   best_confidence, result, max_length, caller, frames>>

(* the break of lines 486-487, or the end of the loop, and line 517 *)
ScanReturn ==
    /\ pc = "scanning"
    /\ IF pos <= Len(test_lengths) THEN test_lengths[pos] > max_length.v ELSE TRUE
    /\ result' = found_watermarks
    /\ pc' = "scanned"
    /\ UNCHANGED <<watermark, length, image, test_lengths, pos, decoder_log,
                   decoding_attempts, best_matches, best_result,
                   best_confidence, max_length, found_watermarks,
                   caller, frames>>

ScanNext ==
    \/ \E max \in MaxLengths, bg \in ScanBackgrounds : ScanCall(max, bg)
    \/ \E max \in MaxLengths : ScanUnreadable(max)
    \/ \E outcome \in ScanOutcomes : ScanProbe(outcome)
    \/ ScanReturn

ScanSpec == Init /\ [][ScanNext]_vars

Scanned == pc = "scanned"

(* the entry was made from a payload that is well-formed UTF-8 *)
IsTextEntry(entry) == Utf8Decode(entry.raw_bytes, "strict").ok

(* C19: no entry of a scan has a length above max_length or a content made *)
(* of the sentinel characters NUL, DEL, U+00FF alone; a text entry is      *)
(* non-empty after stripping and ASCII-only, and a hex entry is never the  *)
(* all-0xFF payload of its length.                                         *)
C19_ScanEntriesSafe ==
    pc \in {"scanning", "scanned"} =>
        /\ Scanned => result = found_watermarks
        /\ \A k \in 1..Len(found_watermarks) :
              LET entry == found_watermarks[k]
              IN  /\ entry.length <= max_length.v
                  /\ \E i \in 1..Len(entry.content) :
                        entry.content[i] \notin Sentinels
                  /\ IsTextEntry(entry) =>
                        /\ strip(entry.content) # <<>>
                        /\ \A i \in 1..Len(entry.content) : entry.content[i] < 128
                  /\ ~IsTextEntry(entry) =>
                        entry.raw_bytes # Repeat(255, entry.length \div 8)

(* the decoder answered NUL DEL at every length but one, where it answered *)
(* FF 00: the scan returns the hex entry alone                             *)
C19_Witness ==
    /\ Scanned
    /\ image.background = DecPayload(<<0, 127>>)
    /\ Len(decoder_log) >= 4
    /\ Len(result) = 1
    /\ result[1].content = HexPrefix \o <<102, 102, 48, 48>>

(* the lengths the call in progress has to probe: the common lengths and   *)
(* the multiples of 8 from 8 up to and including min(max_length, 256),     *)
(* those above max_length left out                                         *)
ExpectedScanLengths ==
    {n \in CharSet(ScanCommonLengths)
            \cup {m \in 8..Min2(max_length.v, 256) : m % 8 = 0} :
        n <= max_length.v}

(* C20: a scan probes exactly the common lengths and the multiples of 8    *)
(* from 8 up to and including min(max_length, 256) that do not exceed      *)
(* max_length, each once, in ascending order.                              *)
C20_ScanProbeSet ==
    Scanned =>
        /\ {decoder_log[k].length : k \in 1..Len(decoder_log)} = ExpectedScanLengths
        /\ \A j, k \in 1..Len(decoder_log) :
              j < k => decoder_log[j].length < decoder_log[k].length

----------------------------------------------------------------------------
(* cli.py: the detect command                                              *)

(* the image path of the command line: no such file, a file that cv2       *)
(* cannot read, or an image with what the decoder makes of it              *)
MissingFile ==
    [kind |-> "missing", background |-> DecNone, embedded |-> NotEmbedded]

UnreadableFile ==
    [kind |-> "unreadable", background |-> DecNone, embedded |-> NotEmbedded]

ImageFile(bg, e) == [kind |-> "image", background |-> bg, embedded |-> e]

CliBackgrounds == {DecNone, DecPayload(HNoise)}

CliFiles ==
    {MissingFile, UnreadableFile}
        \cup {ImageFile(bg, e) : bg \in CliBackgrounds, e \in Embeddings}

(* --watermark is a required string, --length an optional integer,         *)
(* --confidence a flag                                                     *)
CliWatermarks == {Some(SocialNetwork0)} \cup {Some(v) : v \in HackVariants}

CliLengths == {NoInt, Some(112), Some(-8)}

CliArgs == [watermark : CliWatermarks, length : CliLengths, confidence : BOOLEAN]

NoArgs == [watermark |-> NoText, length |-> NoInt, confidence |-> FALSE]

(* what the decoder answers on the file at one declared length *)
DecoderAnswer(file, test_length) ==
    IF file.embedded.length = test_length /\ test_length > 0
    THEN DecPayload(file.embedded.bytes)
    ELSE file.background

(* lines 202-209: the command line parses and cmd_detect is entered *)
main_detect(args, file) ==
    /\ pc = "idle"
    /\ caller.stage = "none"
    /\ caller' = [stage |-> "entered", command |-> "detect", args |-> args,
                  file |-> file, exit_code |-> NoInt, printed |-> "None"]
    /\ UNCHANGED <<pc, watermark, length, image, test_lengths, pos, decoder_log,
                   decoding_attempts, best_matches, best_result, best_confidence,
                   result, max_length, found_watermarks, frames>>

(* line 202: argparse rejects the command line (unknown method, missing    *)
(* --watermark, non-integer --length) and exits with status 2              *)
main_usage_error ==
    /\ pc = "idle"
    /\ caller.stage = "none"
    /\ caller' = [stage |-> "exited", command |-> "usage", args |-> NoArgs,
                  file |-> MissingFile, exit_code |-> Some(2),
                  printed |-> "usage"]
    /\ UNCHANGED <<pc, watermark, length, image, test_lengths, pos, decoder_log,
                   decoding_attempts, best_matches, best_result, best_confidence,
                   result, max_length, found_watermarks, frames>>

(* lines 56-58: the image path does not exist *)
cmd_detect_not_found ==
    /\ pc = "idle"
    /\ caller.stage = "entered"
    /\ caller.file.kind = "missing"
    /\ caller' = [caller EXCEPT !.stage = "exited", !.exit_code = Some(1),
                                !.printed = "Error"]
    /\ UNCHANGED <<pc, watermark, length, image, test_lengths, pos, decoder_log,
                   decoding_attempts, best_matches, best_result, best_confidence,
                   result, max_length, found_watermarks, frames>>

(* lines 60-68: detect_watermark_robust is called on the existing file *)
cmd_detect_call ==
    /\ caller.stage = "entered"
    /\ caller.file.kind # "missing"
    /\ IF caller.file.kind = "image"
       THEN Call(caller.args.watermark, caller.args.length, caller.file.background)
       ELSE CallUnreadable(caller.args.watermark, caller.args.length)

(* one probe of the call, answered by the decoder from the file *)
cmd_detect_probe ==
    /\ caller.stage = "entered"
    /\ pc = "probing"
    /\ pos <= Len(test_lengths)
    /\ Probe(DecoderAnswer(caller.file, test_lengths[pos]))

cmd_detect_return ==
    /\ caller.stage = "entered"
    /\ Return

(* lines 70-99: the verdict printed and the status returned *)
cmd_detect_verdict ==
    /\ pc = "returned"
    /\ caller.stage = "entered"
    /\ caller' =
           IF caller.args.watermark.some
           THEN IF result.has_watermark.v
                THEN [caller EXCEPT !.stage = "exited", !.exit_code = Some(0),
                                    !.printed = IF caller.args.confidence
                                                THEN "yes (confidence)"
                                                ELSE "yes"]
                ELSE [caller EXCEPT !.stage = "exited", !.exit_code = Some(1),
                                    !.printed = IF caller.args.confidence
                                                THEN "no (decoded)"
                                                ELSE "no"]
           ELSE [caller EXCEPT !.stage = "exited", !.exit_code = Some(0),
                               !.printed = "decoded"]
    /\ UNCHANGED <<pc, watermark, length, image, test_lengths, pos, decoder_log,
                   decoding_attempts, best_matches, best_result, best_confidence,
                   result, max_length, found_watermarks, frames>>

(* lines 100-102: an exception of the call is printed, status 2 *)
cmd_detect_error ==
    /\ pc = "raised"
    /\ caller.stage = "entered"
    /\ caller' = [caller EXCEPT !.stage = "exited", !.exit_code = Some(2),
                                !.printed = "Error"]
    /\ UNCHANGED <<pc, watermark, length, image, test_lengths, pos, decoder_log,
                   decoding_attempts, best_matches, best_result, best_confidence,
                   result, max_length, found_watermarks, frames>>

CliNext ==
    \/ \E args \in CliArgs, file \in CliFiles : main_detect(args, file)
    \/ main_usage_error
    \/ cmd_detect_not_found
    \/ cmd_detect_call
    \/ cmd_detect_probe
    \/ cmd_detect_return
    \/ cmd_detect_verdict
    \/ cmd_detect_error

CliSpec == Init /\ [][CliNext]_vars

Exited == caller.stage = "exited"

(* the call completed and matched, or completed without a match *)
Matched == pc = "returned" /\ result.has_watermark = Some(TRUE)

CompletedNoMatch == pc = "returned" /\ result.has_watermark = Some(FALSE)

(* a hard error: the command line is invalid, or the image file is missing *)
(* or cannot be read                                                       *)
HardError ==
    \/ caller.command = "usage"
    \/ caller.command = "detect" /\ caller.file.kind \in {"missing", "unreadable"}

YesOutputs == {"yes", "yes (confidence)"}

NoOutputs == {"no", "no (decoded)"}

(* C21: the detect command exits 0 exactly when the expected watermark     *)
(* matched (printing "yes"), exits 1 exactly when detection completed with *)
(* no match (printing "no"), and exits 2 for every hard error; a hard      *)
(* error never has the exit status of "no match".                          *)
C21_DetectExitStatus ==
    Exited =>
        /\ caller.exit_code = Some(0) <=> (Matched /\ caller.printed \in YesOutputs)
        /\ caller.exit_code = Some(1)
               <=> (CompletedNoMatch /\ caller.printed \in NoOutputs)
        /\ HardError => caller.exit_code = Some(2)

(* C22: on an image whose decode yields the embedded text W, detect with   *)
(* the expected text W reports "yes", and detect with any other expected   *)
(* text (lower case, a character removed or added, 0 replaced by O,        *)
(* quoted, empty, an unrelated word) reports "no" with exit status 1.      *)
C22_OnlyCorrectWatermarkDetected ==
    (/\ Exited
     /\ caller.command = "detect"
     /\ caller.file.kind = "image"
     /\ caller.file.embedded.bytes = SocialNetwork0) =>
        IF caller.args.watermark.v = SocialNetwork0
        THEN caller.printed \in YesOutputs /\ caller.exit_code = Some(0)
        ELSE caller.printed \in NoOutputs /\ caller.exit_code = Some(1)

----------------------------------------------------------------------------
(* The error surface of detect_watermark_robust and extract_any_watermark  *)

(* calls with and without an expected text, with no hint, a hint of 0 and  *)
(* a negative hint; a decoder that answers nothing, raises, or answers     *)
(* "Hello", noise or "AB"                                                  *)
SurfaceWatermarks == {NoText, Some(Hello)}

SurfaceHints == {NoInt, Some(0), Some(-8)}

SurfaceBackgrounds == {DecNone, DecPayload(HNoise)}

SurfaceOutcomes == {DecNone, DecRaise, DecPayload(Hello), DecPayload(HNoise)}

SurfaceMaxLengths == {0, 40, 44}

SurfaceScanOutcomes == {DecNone, DecRaise, DecPayload(<<65, 66>>)}

(* the steps of a call in progress *)
SurfaceStep ==
    \/ \E outcome \in SurfaceOutcomes : Probe(outcome)
    \/ Return
    \/ \E outcome \in SurfaceScanOutcomes : ScanProbe(outcome)
    \/ ScanReturn

SurfaceNext ==
    \/ \E wm \in SurfaceWatermarks, hint \in SurfaceHints,
          bg \in SurfaceBackgrounds : Call(wm, hint, bg)
    \/ \E wm \in SurfaceWatermarks, hint \in SurfaceHints : CallUnreadable(wm, hint)
    \/ \E max \in SurfaceMaxLengths : ScanCall(max, DecNone)
    \/ \E max \in SurfaceMaxLengths : ScanUnreadable(max)
    \/ SurfaceStep

(* a call in progress runs synchronously to its end: every probe of the    *)
(* decoder returns or raises, and the loop goes on                         *)
SurfaceSpec == Init /\ [][SurfaceNext]_vars /\ WF_vars(SurfaceStep)

(* the result before any call has returned *)
NothingReturned ==
    result = [has_watermark |-> None(FALSE), confidence |-> None(RZero),
              decoded_text |-> NoText, used_length |-> NoInt,
              diagnostics |-> <<>>]

(* C23: detect and scan raise only for an unreadable image, before any     *)
(* probe of the decoder and without a result; on a readable image they     *)
(* always return a result, whatever the probes do and also when nothing    *)
(* matches.                                                                *)
C23_ErrorSurface ==
    /\ [](pc = "raised" =>
              ~image.readable /\ decoder_log = <<>> /\ NothingReturned)
    /\ [](~image.readable => pc = "raised")
    /\ (pc \in {"probing", "scanning"}) ~> (pc \in {"returned", "scanned"})

(* a call with a negative hint on a readable image whose decoder raised at *)
(* a probe has returned "no match"                                         *)
C23_Witness ==
    /\ pc = "returned"
    /\ image.readable
    /\ length = Some(-8)
    /\ result.has_watermark = Some(FALSE)
    /\ \E k \in 1..Len(decoder_log) : decoder_log[k].outcome = DecRaise

----------------------------------------------------------------------------
(* core.py: extract_watermark                                              *)

Raised(exception) == [raised |-> TRUE, exception |-> exception, value |-> <<>>]

Returns(value) == [raised |-> FALSE, exception |-> "None", value |-> value]

(* lines 161-172: the image is loaded, the decoder is called once at the   *)
(* declared length and the payload is decoded as UTF-8, or given in        *)
(* hexadecimal when UnicodeDecodeError is raised; an exception of the      *)
(* decoder, or of calling decode on None, is not caught                    *)
extract_watermark(readable, outcome) ==
    IF ~readable THEN Raised("ValueError")
    ELSE IF outcome.kind = "raise" THEN Raised("RuntimeError")
    ELSE IF outcome.kind = "none" THEN Raised("AttributeError")
    ELSE IF Utf8Decode(outcome.bytes, "strict").ok
         THEN Returns(Utf8Decode(outcome.bytes, "strict").text)
         ELSE Returns(Hex(outcome.bytes))

(* declared lengths: the embedded one, wrong ones, one that is no multiple *)
(* of 8                                                                    *)
ExtractLengths == {5, 8, 16, 40}

(* the decoder returns None, raises, or returns a short byte string *)
ExtractOutcomes ==
    {DecNone, DecRaise} \cup {DecPayload(b) : b \in Strings(RecoveryBytes, 2)}

ExtractCall(readable, watermark_length, outcome) ==
    /\ pc = "idle"
    /\ result' = [readable |-> readable, watermark_length |-> watermark_length,
                  outcome |-> outcome,
                  extracted |-> extract_watermark(readable, outcome)]
    /\ pc' = "extracted"
    /\ UNCHANGED <<watermark, length, image, test_lengths, pos, decoder_log,
                   decoding_attempts, best_matches, best_result, best_confidence,
                   max_length, found_watermarks, caller, frames>>

ExtractNext ==
    \E readable \in BOOLEAN, watermark_length \in ExtractLengths,
       outcome \in ExtractOutcomes :
        ExtractCall(readable, watermark_length, outcome)

ExtractSpec == Init /\ [][ExtractNext]_vars

(* C24: on a readable image, for every declared length and every outcome   *)
(* of the decoder (payload bytes or None), extract_watermark does not      *)
(* raise and returns a string: the UTF-8 text of the payload, or its       *)
(* hexadecimal form when the payload is not valid UTF-8.                   *)
C24_ExtractReturnsString ==
    (/\ pc = "extracted"
     /\ result.readable
     /\ result.outcome.kind \in {"bytes", "none"}) =>
        /\ ~result.extracted.raised
        /\ result.outcome.kind = "bytes" =>
               result.extracted.value =
                   IF Utf8Decode(result.outcome.bytes, "strict").ok
                   THEN Utf8Decode(result.outcome.bytes, "strict").text
                   ELSE Hex(result.outcome.bytes)

----------------------------------------------------------------------------
(* match_by_signature as detect_watermark_robust calls it                  *)

SignatureAlphabet == {97, 65, 49}

(* expected texts and decoded payloads: short strings, the texts of the    *)
(* detection scenarios, and payloads that are not UTF-8                    *)
SignatureExpected ==
    (Strings(SignatureAlphabet, MaxStringLength - 1) \ {<<>>})
        \cup {Hello, SocialNetwork0}

SignaturePayloads ==
    Strings(SignatureAlphabet, MaxStringLength)
        \cup {Hello, HNoise, SigOnly, HelloNul, S0cialNetw0rk0,
              <<255, 97, 98>>, <<195, 169, 97>>}

(* lines 364-385: the text is recovered from the payload and, when it is   *)
(* not empty, scored against the signature of the expected text            *)
SignatureCall(expected, decoded_bytes) ==
    /\ pc = "idle"
    /\ Scorable(Some(expected), bytes_to_text_smart(decoded_bytes).text)
    /\ result' =
           [expected |-> expected,
            decoded_bytes |-> decoded_bytes,
            decoded_text |-> bytes_to_text_smart(decoded_bytes).text.v,
            match |-> match_by_signature(
                          create_watermark_signature(expected), decoded_bytes,
                          bytes_to_text_smart(decoded_bytes).text.v)]
    /\ pc' = "signed"
    /\ UNCHANGED <<watermark, length, image, test_lengths, pos, decoder_log,
                   decoding_attempts, best_matches, best_result, best_confidence,
                   max_length, found_watermarks, caller, frames>>

SignatureNext ==
    \E expected \in SignatureExpected, decoded_bytes \in SignaturePayloads :
        SignatureCall(expected, decoded_bytes)

SignatureSpec == Init /\ [][SignatureNext]_vars

Signed == pc = "signed"

(* length proximity, when the character lengths differ by at most 2 *)
LengthProximity ==
    LET a == Len(result.expected)
        b == Len(result.decoded_text)
    IN  IF Abs(a - b) <= 2 THEN R(Max2(a, b) - Abs(a - b), Max2(a, b)) ELSE RZero

(* share of the expected characters, case folded, found in the decoded text *)
CharSetOverlap ==
    LET e == CharSet(lower(result.expected))
        d == CharSet(lower(result.decoded_text))
    IN  R(Cardinality(e \cap d), Cardinality(e))

(* share of the expected patterns that contain, or are contained in, a     *)
(* pattern of the decoded text                                             *)
PatternOverlap ==
    LET e == Patterns(result.expected)
        d == Patterns(result.decoded_text)
        hits == {i \in 1..Len(e) :
                    \E k \in 1..Len(d) : Contains(d[k], e[i]) \/ Contains(e[i], d[k])}
    IN  IF e = <<>> THEN RZero ELSE R(Cardinality(hits), Len(e))

(* share of the compared byte positions that agree, when above 30% *)
ByteAgreement ==
    LET e == Utf8Encode(result.expected)
        n == Min2(Len(e), Len(result.decoded_bytes))
        agree == Cardinality({i \in 1..n : e[i] = result.decoded_bytes[i]})
    IN  IF n > 0 /\ 10 * agree > 3 * n THEN R(agree, n) ELSE RZero

SignatureTotal ==
    RAdd(RAdd(RMul(LengthProximity, R(2, 10)), RMul(CharSetOverlap, R(3, 10))),
         RAdd(RMul(PatternOverlap, R(4, 10)), RMul(ByteAgreement, R(1, 10))))

(* C25: the signature score is the sum of length proximity x 0.2 (length   *)
(* difference <= 2 only), character-set overlap x 0.3, pattern overlap     *)
(* x 0.4 and byte-position agreement x 0.1 (only above 30% agreement); it  *)
(* lies in [0, 1] and is_match holds exactly when it is >= 0.4.            *)
C25_SignatureScore ==
    Signed =>
        /\ result.match.similarity = SignatureTotal
        /\ RLe(RZero, result.match.similarity)
        /\ RLe(result.match.similarity, ROne)
        /\ result.match.is_match <=> RLe(R(4, 10), result.match.similarity)

(* "SocialNetwork0" against the payload "S0cialNetw0rk0": all four parts   *)
(* count, 0.2 + 0.3 x 12/13 + 0.4 + 0.1 x 12/14 = 438/455, a match         *)
C25_Witness ==
    /\ Signed
    /\ result.expected = SocialNetwork0
    /\ result.decoded_bytes = S0cialNetw0rk0
    /\ result.match.similarity = R(438, 455)
    /\ result.match.is_match

(* the detect command has got its result for the expected text            *)
(* "SocialNetwork0" on an image whose decoder returns "S0cialNetw0rk0" at  *)
(* the base length, 112 bits                                               *)
SubstitutionCase ==
    /\ pc = "returned"
    /\ caller.stage \in {"entered", "exited"}
    /\ caller.args.watermark = Some(SocialNetwork0)
    /\ caller.file.embedded.bytes = S0cialNetw0rk0

(* the attempt at the base length *)
BaseAttempt ==
    decoding_attempts[CHOOSE k \in 1..Len(decoding_attempts) :
                          decoding_attempts[k].length = 112]

(* the cascade matches at the base length by edit-distance similarity 12/14 *)
CascadeMatchesBySimilarity ==
    /\ BaseAttempt.fuzzy_match.v.is_match
    /\ BaseAttempt.fuzzy_match.v.similarity = R(12, 14)
    /\ RLe(R(6, 10), BaseAttempt.fuzzy_match.v.similarity)

----------------------------------------------------------------------------
(* Two calls of the engine running side by side. Every variable of         *)
(* detect_watermark_robust and of extract_any_watermark is a local of the  *)
(* call, so each call has a frame of its own in frames; the module has no  *)
(* variable outside the functions.                                         *)

(* the images of the calls: nothing embedded, "Hello" at 40 bits over      *)
(* noise, "S0cialNetw0rk0" at 112 bits                                     *)
ConcurrentImages ==
    { ImageFile(DecNone, NotEmbedded),
      ImageFile(DecPayload(HNoise), [length |-> 40, bytes |-> Hello]),
      ImageFile(DecNone, [length |-> 112, bytes |-> S0cialNetw0rk0]) }

ConcurrentWatermarks == {NoText, Some(Hello)}

ConcurrentMaxLengths == {44}

(* detect_watermark_robust(image_path, watermark=wm, length=hint) *)
DetectArgs(wm, hint, file) ==
    [op |-> "detect", watermark |-> wm, length |-> hint, max_length |-> NoInt,
     file |-> file]

(* extract_any_watermark(image_path, max_length=max) *)
ScanArgs(max, file) ==
    [op |-> "scan", watermark |-> NoText, length |-> NoInt,
     max_length |-> Some(max), file |-> file]

ConcurrentCalls ==
    {DetectArgs(wm, NoInt, file) :
         wm \in ConcurrentWatermarks, file \in ConcurrentImages}
        \cup {ScanArgs(max, file) :
                  max \in ConcurrentMaxLengths, file \in ConcurrentImages}

(* the locals of a call when it reaches its loop: lines 302-342 of detect, *)
(* lines 475-485 of the scan                                               *)
NewFrame(args) ==
    [args |-> args,
     pc |-> IF args.op = "detect" THEN "probing" ELSE "scanning",
     test_lengths |-> IF args.op = "detect"
                      THEN TestLengths(args.watermark, args.length)
                      ELSE ScanLengths(args.max_length.v),
     pos |-> 1,
     decoding_attempts |-> <<>>,
     best_matches |-> <<>>,
     best_result |-> NoBest,
     best_confidence |-> RZero,
     found_watermarks |-> <<>>,
     result |-> [has_watermark |-> None(FALSE), confidence |-> None(RZero),
                 decoded_text |-> NoText, used_length |-> NoInt,
                 diagnostics |-> <<>>]]

(* one iteration of the loop of lines 344-417 on the locals of a call *)
ProbeFrame(f) ==
    LET Record(test_length, attempt, confidence) ==
            LET scored == attempt.fuzzy_match.some
                is_fuzzy_match == attempt.fuzzy_match.v.is_match
                is_sig_match == attempt.signature_match.v.is_match
                is_match == IsMatch(is_fuzzy_match, is_sig_match)
                better == scored /\ IsBetter(is_match, confidence, f.best_result,
                                             f.best_confidence)
                new_best ==
                    [confidence |-> confidence,
                     decoded_text |-> attempt.decoded_text.v,
                     used_length |-> test_length,
                     match_method |-> IF is_fuzzy_match THEN "fuzzy"
                                      ELSE "signature",
                     match_reason |-> IF is_fuzzy_match
                                      THEN attempt.fuzzy_match.v.reason
                                      ELSE attempt.signature_match.v.reason]
            IN  [f EXCEPT !.pos = f.pos + 1,
                          !.decoding_attempts = Append(f.decoding_attempts, attempt),
                          !.best_result = IF better THEN Some(new_best)
                                          ELSE f.best_result,
                          !.best_confidence = IF better THEN confidence
                                              ELSE f.best_confidence,
                          !.best_matches = IF better
                                           THEN Append(f.best_matches, new_best)
                                           ELSE f.best_matches]
        Decoded(test_length, outcome) ==
            Record(test_length,
                   IF outcome.kind = "raise" THEN ErrorAttempt(test_length)
                   ELSE IF outcome.kind = "none" THEN EmptyAttempt(test_length)
                   ELSE ScoredAttempt(f.args.watermark, test_length, outcome.bytes),
                   ScoringTable[f.args.watermark, outcome.bytes].combined_confidence)
    IN  Decoded(f.test_lengths[f.pos],
                DecoderAnswer(f.args.file, f.test_lengths[f.pos]))

(* lines 419-432 on the locals of a call *)
ReturnFrame(f) ==
    [f EXCEPT !.pc = "returned",
              !.result = IF f.best_result.some
                         THEN MatchResult(f.best_result.v, f.decoding_attempts)
                         ELSE NoMatchResult(f.decoding_attempts)]

(* one iteration of the loop of lines 485-515 on the locals of a call *)
ScanProbeFrame(f) ==
    LET Record(test_length, outcome) ==
            [f EXCEPT !.pos = f.pos + 1,
                      !.found_watermarks =
                          IF outcome.kind \in {"none", "raise"}
                          THEN f.found_watermarks
                          ELSE f.found_watermarks
                                   \o ScanEntries(test_length,
                                                  PayloadAt(outcome, test_length))]
    IN  Record(f.test_lengths[f.pos],
               DecoderAnswer(f.args.file, f.test_lengths[f.pos]))

(* the break of lines 486-487, or the end of the loop, and line 517 *)
ScanReturnFrame(f) == [f EXCEPT !.pc = "scanned"]

(* the loop of a detect goes on *)
InDetectLoop(f) == f.pc = "probing" /\ f.pos <= Len(f.test_lengths)

(* the loop of a scan goes on *)
InScanLoop(f) ==
    /\ f.pc = "scanning"
    /\ f.pos <= Len(f.test_lengths)
    /\ f.test_lengths[f.pos] <= f.args.max_length.v

(* the next step of a call, whichever it is *)
StepFrame(f) ==
    IF f.pc = "probing"
    THEN IF InDetectLoop(f) THEN ProbeFrame(f) ELSE ReturnFrame(f)
    ELSE IF InScanLoop(f) THEN ScanProbeFrame(f) ELSE ScanReturnFrame(f)

Done(f) == f.pc \in {"returned", "scanned"}

(* a call run from its first line to its return with nothing beside it *)
RECURSIVE RunAlone(_)
RunAlone(f) == IF Done(f) THEN f ELSE RunAlone(StepFrame(f))

(* RunAlone tabulated over the calls of the model *)
Alone == [args \in ConcurrentCalls |-> RunAlone(NewFrame(args))]

(* two threads enter the engine, each with an image of its own *)
ConcurrentCall(a, b) ==
    /\ pc = "idle"
    /\ a.file # b.file
    /\ frames' = <<NewFrame(a), NewFrame(b)>>
    /\ pc' = "concurrent"
    /\ UNCHANGED <<watermark, length, image, test_lengths, pos, decoder_log,
                   decoding_attempts, best_matches, best_result, best_confidence,
                   result, max_length, found_watermarks, caller>>

(* variant of ConcurrentProbe: best_result and best_confidence are kept in *)
(* one place for all calls                                                 *)
ConcurrentProbeSharedBest(i) ==
    /\ pc = "concurrent"
    /\ InDetectLoop(frames[i])
    /\ LET Shared(stepped) ==
               [j \in DOMAIN frames |->
                   IF j = i THEN stepped
                   ELSE [frames[j] EXCEPT
                             !.best_result = stepped.best_result,
                             !.best_confidence = stepped.best_confidence]]
       IN  frames' = Shared(ProbeFrame(frames[i]))
    /\ UNCHANGED <<pc, watermark, length, image, test_lengths, pos, decoder_log,
                   decoding_attempts, best_matches, best_result, best_confidence,
                   result, max_length, found_watermarks, caller>>

(* call i runs one iteration of the loop of detect *)
ConcurrentProbe(i) ==
    /\ pc = "concurrent"
    /\ InDetectLoop(frames[i])
    /\ frames' = [frames EXCEPT ![i] = ProbeFrame(frames[i])]
    /\ UNCHANGED <<pc, watermark, length, image, test_lengths, pos, decoder_log,
                   decoding_attempts, best_matches, best_result, best_confidence,
                   result, max_length, found_watermarks, caller>>

(* call i leaves the loop of detect and returns *)
ConcurrentReturn(i) ==
    /\ pc = "concurrent"
    /\ frames[i].pc = "probing"
    /\ ~InDetectLoop(frames[i])
    /\ frames' = [frames EXCEPT ![i] = ReturnFrame(frames[i])]
    /\ UNCHANGED <<pc, watermark, length, image, test_lengths, pos, decoder_log,
                   decoding_attempts, best_matches, best_result, best_confidence,
                   result, max_length, found_watermarks, caller>>

(* call i runs one iteration of the loop of the scan *)
ConcurrentScanProbe(i) ==
    /\ pc = "concurrent"
    /\ InScanLoop(frames[i])
    /\ frames' = [frames EXCEPT ![i] = ScanProbeFrame(frames[i])]
    /\ UNCHANGED <<pc, watermark, length, image, test_lengths, pos, decoder_log,
                   decoding_attempts, best_matches, best_result, best_confidence,
                   result, max_length, found_watermarks, caller>>

(* call i leaves the loop of the scan and returns *)
ConcurrentScanReturn(i) ==
    /\ pc = "concurrent"
    /\ frames[i].pc = "scanning"
    /\ ~InScanLoop(frames[i])
    /\ frames' = [frames EXCEPT ![i] = ScanReturnFrame(frames[i])]
    /\ UNCHANGED <<pc, watermark, length, image, test_lengths, pos, decoder_log,
                   decoding_attempts, best_matches, best_result, best_confidence,
                   result, max_length, found_watermarks, caller>>

ConcurrentNext ==
    \/ \E a \in ConcurrentCalls, b \in ConcurrentCalls : ConcurrentCall(a, b)
    \/ \E i \in 1..2 : ConcurrentProbe(i)
    \/ \E i \in 1..2 : ConcurrentReturn(i)
    \/ \E i \in 1..2 : ConcurrentScanProbe(i)
    \/ \E i \in 1..2 : ConcurrentScanReturn(i)

ConcurrentSpec == Init /\ [][ConcurrentNext]_vars

----------------------------------------------------------------------------
(* The length suggestion of the request layer: calculate_watermark_length  *)
(* and get_suggested_lengths                                               *)

(* common_lengths of lines 110 and 145 *)
api_common_lengths == <<32, 64, 96, 128, 160, 192, 224, 256>>

(* min(common_lengths, key=lambda x: abs(x - bit_length)): the first of    *)
(* the nearest elements                                                    *)
closest_length(bit_length) ==
    api_common_lengths[
        CHOOSE k \in 1..Len(api_common_lengths) :
            /\ \A j \in 1..Len(api_common_lengths) :
                   Abs(api_common_lengths[k] - bit_length)
                       <= Abs(api_common_lengths[j] - bit_length)
            /\ \A j \in 1..(k - 1) :
                   Abs(api_common_lengths[j] - bit_length)
                       > Abs(api_common_lengths[k] - bit_length)]

(* lines 100-124 *)
calculate_watermark_length(text) ==
    LET bit_length == Len(Utf8Encode(text)) * 8
    IN  IF bit_length \in CharSet(api_common_lengths) THEN bit_length
        ELSE IF Abs(closest_length(bit_length) - bit_length) <= 16
             THEN closest_length(bit_length)
             ELSE bit_length

(* unique_lengths[:n] *)
FirstOf(xs, n) == SubSeq(xs, 1, Min2(n, Len(xs)))

(* lines 127-152 *)
get_suggested_lengths(text) ==
    LET byte_length == Len(Utf8Encode(text))
        suggested == <<calculate_watermark_length(text)>>
        alternative_lengths ==
            <<byte_length * 8, (byte_length + 1) * 8,
              IF byte_length > 1 THEN (byte_length - 1) * 8 ELSE 8>>
        all_lengths == suggested \o alternative_lengths \o api_common_lengths
        unique_lengths == SortedSet({l \in CharSet(all_lengths) : l > 0})
    IN  FirstOf(unique_lengths, 5)

(* longest text of the length suggestion, in characters *)
MaxSuggestLength == 40

(* texts of one-byte, two-byte and three-byte characters: "a", U+00E9 and  *)
(* U+20AC repeated                                                         *)
SuggestTexts ==
    {Repeat(c, n) : c \in {97, 233, 8364}, n \in 1..MaxSuggestLength}

(* lines 471-472: both functions are applied to a text *)
SuggestCall(text) ==
    /\ pc = "idle"
    /\ result' = [text |-> text,
                  text_byte_length |-> Len(Utf8Encode(text)),
                  recommended_length |-> calculate_watermark_length(text),
                  suggested_lengths |-> get_suggested_lengths(text)]
    /\ pc' = "suggested"
    /\ UNCHANGED <<watermark, length, image, test_lengths, pos, decoder_log,
                   decoding_attempts, best_matches, best_result, best_confidence,
                   max_length, found_watermarks, caller, frames>>

SuggestNext == \E text \in SuggestTexts : SuggestCall(text)

SuggestSpec == Init /\ [][SuggestNext]_vars

Suggested == pc = "suggested"

(* at most 5 positive lengths in ascending order *)
WellFormedSuggestion ==
    /\ Len(result.suggested_lengths) <= 5
    /\ \A k \in 1..Len(result.suggested_lengths) : result.suggested_lengths[k] > 0
    /\ \A k \in 1..(Len(result.suggested_lengths) - 1) :
           result.suggested_lengths[k] < result.suggested_lengths[k + 1]

(* C29: for every non-empty text the list of get_suggested_lengths, at    *)
(* most 5 positive lengths in ascending order, contains the recommended    *)
(* length calculate_watermark_length(text).                                *)
C29_SuggestedContainsRecommended ==
    Suggested /\ result.text # <<>> =>
        /\ WellFormedSuggestion
        /\ result.recommended_length \in CharSet(result.suggested_lengths)

----------------------------------------------------------------------------
(* The request layer, api.py: the add, detect, extract and scan endpoints. *)
(* caller holds the request, the files of TEMP_DIR that the handler has    *)
(* created, the number of engine calls made and the response.              *)

ApiMethods == {"dwtDct", "rivaGan", "lsb"}

ApiContentTypes == {"image/png", "text/plain"}

(* the text of a request: blank, or "Hello" *)
ApiTexts == {<<32, 32>>, Hello}

(* length of detect and extract: left out, 0, negative, 40 *)
ApiLengths == {NoInt, Some(0), Some(-8), Some(40)}

(* max_length of scan: 0, the default, the largest accepted, above it *)
ApiMaxLengths == {0, 512, 2048, 2049}

(* a request; readable tells whether cv2.imread can load the upload *)
ApiRequest(endpoint, text, method, content_type, len, max, readable) ==
    [endpoint |-> endpoint, text |-> text, method |-> method,
     content_type |-> content_type, length |-> len, max_length |-> max,
     readable |-> readable]

ApiRequests ==
    {ApiRequest("add", t, m, c, NoInt, 512, r) :
         t \in ApiTexts, m \in ApiMethods, c \in ApiContentTypes, r \in BOOLEAN}
    \cup {ApiRequest("detect", t, m, c, l, 512, r) :
              t \in ApiTexts, m \in ApiMethods, c \in ApiContentTypes,
              l \in ApiLengths, r \in BOOLEAN}
    \cup {ApiRequest("extract", <<>>, m, c, l, 512, r) :
              m \in ApiMethods, c \in ApiContentTypes, l \in ApiLengths,
              r \in BOOLEAN}
    \cup {ApiRequest("scan", <<>>, m, c, NoInt, x, r) :
              m \in ApiMethods, c \in ApiContentTypes, x \in ApiMaxLengths,
              r \in BOOLEAN}

(* "length is None or length == 0" *)
LengthLeftOut(len) == ~len.some \/ len.v = 0

(* the detail of the HTTPException(status_code=400) that the validation    *)
(* of the request raises, "None" when it raises nothing: lines 193-201,    *)
(* 249-257, 337-349, 392-400                                               *)
ValidationDetail(request) ==
    LET first ==
            IF request.endpoint \in {"add", "detect"}
            THEN IF strip(request.text) = <<>> THEN "empty text" ELSE "None"
            ELSE IF request.endpoint = "extract"
            THEN IF (IF LengthLeftOut(request.length) THEN 96
                     ELSE request.length.v) <= 0
                 THEN "length not positive" ELSE "None"
            ELSE IF request.max_length <= 0 \/ request.max_length > 2048
                 THEN "max_length out of range" ELSE "None"
    IN  IF first # "None" THEN first
        ELSE IF request.method \notin {"dwtDct", "rivaGan"}
             THEN "unsupported method"
        ELSE IF request.content_type \notin {"image/png"}
             THEN "not an image"
        ELSE "None"

NoResponse == [http_status |-> 0, success |-> FALSE, message |-> "None"]

(* the handler returns its response model: FastAPI answers with status 200 *)
Responds(success, message) ==
    [http_status |-> 200, success |-> success, message |-> message]

(* what one call of the engine does for the handler: it raises, or it      *)
(* returns with or without a match, with a confidence above 0.9 or not     *)
EngineOutcomes ==
    { [raises |-> TRUE, has_watermark |-> FALSE, high |-> FALSE],
      [raises |-> FALSE, has_watermark |-> FALSE, high |-> FALSE],
      [raises |-> FALSE, has_watermark |-> TRUE, high |-> FALSE],
      [raises |-> FALSE, has_watermark |-> TRUE, high |-> TRUE] }

(* the engine raises ValueError on an upload that cv2.imread cannot load;  *)
(* on a readable one it can raise with rivaGan, whose model has to load    *)
EngineCan(request, outcome) ==
    IF request.readable THEN outcome.raises => request.method = "rivaGan"
    ELSE outcome.raises

(* a request reaches its handler *)
api_request(request) ==
    /\ pc = "idle"
    /\ caller.stage = "none"
    /\ caller' = [stage |-> "received", request |-> request, temp_files |-> {},
                  saved |-> FALSE, engine_calls |-> 0, suggested_lengths |-> <<>>,
                  tried |-> 0, best_result |-> FALSE, response |-> NoResponse]
    /\ UNCHANGED <<pc, watermark, length, image, test_lengths, pos, decoder_log,
                   decoding_attempts, best_matches, best_result, best_confidence,
                   result, max_length, found_watermarks, frames>>

(* the validation raises HTTPException inside the try of the handler, and  *)
(* "except Exception" turns it into the response model with success=False: *)
(* lines 223-227, 313-317, 368-372, 430-435                                *)
api_reject ==
    /\ caller.stage = "received"
    /\ ValidationDetail(caller.request) # "None"
    /\ caller' = [caller EXCEPT
                      !.stage = "responded",
                      !.response = Responds(FALSE, ValidationDetail(caller.request))]
    /\ UNCHANGED <<pc, watermark, length, image, test_lengths, pos, decoder_log,
                   decoding_attempts, best_matches, best_result, best_confidence,
                   result, max_length, found_watermarks, frames>>

(* save_temp_file, lines 204, 260, 352, 403; for detect without a length   *)
(* the lengths to try, line 266                                            *)
api_save ==
    /\ caller.stage = "received"
    /\ ValidationDetail(caller.request) = "None"
    /\ caller' = [caller EXCEPT
                      !.stage = "saved",
                      !.saved = TRUE,
                      !.temp_files = {"input"},
                      !.suggested_lengths =
                          IF caller.request.endpoint = "detect"
                             /\ LengthLeftOut(caller.request.length)
                          THEN get_suggested_lengths(caller.request.text)
                          ELSE <<>>]
    /\ UNCHANGED <<pc, watermark, length, image, test_lengths, pos, decoder_log,
                   decoding_attempts, best_matches, best_result, best_confidence,
                   result, max_length, found_watermarks, frames>>

(* lines 207-227: add_watermark is called; os.unlink(input_path) follows   *)
(* the call inside the try, the except branch has no cleanup               *)
api_add(outcome) ==
    /\ caller.stage = "saved"
    /\ caller.request.endpoint = "add"
    /\ EngineCan(caller.request, outcome)
    /\ caller' = IF outcome.raises
                 THEN [caller EXCEPT !.stage = "responded",
                                     !.engine_calls = caller.engine_calls + 1,
                                     !.response = Responds(FALSE, "engine error")]
                 ELSE [caller EXCEPT !.stage = "responded",
                                     !.engine_calls = caller.engine_calls + 1,
                                     !.temp_files =
                                         (caller.temp_files \ {"input"})
                                             \cup {"output"},
                                     !.response = Responds(TRUE, "ok")]
    /\ UNCHANGED <<pc, watermark, length, image, test_lengths, pos, decoder_log,
                   decoding_attempts, best_matches, best_result, best_confidence,
                   result, max_length, found_watermarks, frames>>

(* lines 270-282: one iteration of the loop over the suggested lengths; a  *)
(* call that raises leaves through the finally of lines 309-311            *)
api_detect_try(outcome) ==
    /\ caller.stage = "saved"
    /\ caller.request.endpoint = "detect"
    /\ LengthLeftOut(caller.request.length)
    /\ caller.tried < Len(caller.suggested_lengths)
    /\ EngineCan(caller.request, outcome)
    /\ caller' = IF outcome.raises
                 THEN [caller EXCEPT !.stage = "responded",
                                     !.engine_calls = caller.engine_calls + 1,
                                     !.temp_files = caller.temp_files \ {"input"},
                                     !.response = Responds(FALSE, "engine error")]
                 ELSE [caller EXCEPT !.engine_calls = caller.engine_calls + 1,
                                     !.tried = IF outcome.high
                                               THEN Len(caller.suggested_lengths)
                                               ELSE caller.tried + 1,
                                     !.best_result = caller.best_result
                                                         \/ outcome.has_watermark]
    /\ UNCHANGED <<pc, watermark, length, image, test_lengths, pos, decoder_log,
                   decoding_attempts, best_matches, best_result, best_confidence,
                   result, max_length, found_watermarks, frames>>

(* lines 285-311 after the loop: without a best result the first length is *)
(* tried once more; the response, and the finally                          *)
api_detect_finish(outcome) ==
    /\ caller.stage = "saved"
    /\ caller.request.endpoint = "detect"
    /\ LengthLeftOut(caller.request.length)
    /\ caller.tried >= Len(caller.suggested_lengths)
    /\ EngineCan(caller.request, outcome)
    /\ caller' = IF caller.best_result
                 THEN [caller EXCEPT !.stage = "responded",
                                     !.temp_files = caller.temp_files \ {"input"},
                                     !.response = Responds(TRUE, "ok")]
                 ELSE [caller EXCEPT !.stage = "responded",
                                     !.engine_calls = caller.engine_calls + 1,
                                     !.temp_files = caller.temp_files \ {"input"},
                                     !.response =
                                         IF outcome.raises
                                         THEN Responds(FALSE, "engine error")
                                         ELSE Responds(TRUE, "ok")]
    /\ UNCHANGED <<pc, watermark, length, image, test_lengths, pos, decoder_log,
                   decoding_attempts, best_matches, best_result, best_confidence,
                   result, max_length, found_watermarks, frames>>

(* the engine call of detect with a given length (lines 294-311), of       *)
(* extract (lines 354-366) and of scan (lines 405-428): try and finally    *)
api_call(outcome) ==
    /\ caller.stage = "saved"
    /\ \/ caller.request.endpoint \in {"extract", "scan"}
       \/ caller.request.endpoint = "detect"
              /\ ~LengthLeftOut(caller.request.length)
    /\ EngineCan(caller.request, outcome)
    /\ caller' = [caller EXCEPT !.stage = "responded",
                                !.engine_calls = caller.engine_calls + 1,
                                !.temp_files = caller.temp_files \ {"input"},
                                !.response = IF outcome.raises
                                             THEN Responds(FALSE, "engine error")
                                             ELSE Responds(TRUE, "ok")]
    /\ UNCHANGED <<pc, watermark, length, image, test_lengths, pos, decoder_log,
                   decoding_attempts, best_matches, best_result, best_confidence,
                   result, max_length, found_watermarks, frames>>

ApiNext ==
    \/ \E request \in ApiRequests : api_request(request)
    \/ api_reject
    \/ api_save
    \/ \E outcome \in EngineOutcomes : api_add(outcome)
    \/ \E outcome \in EngineOutcomes : api_detect_try(outcome)
    \/ \E outcome \in EngineOutcomes : api_detect_finish(outcome)
    \/ \E outcome \in EngineOutcomes : api_call(outcome)

ApiSpec == Init /\ [][ApiNext]_vars

Responded == caller.stage = "responded"

(* C28: for each of the add, detect, extract and scan endpoints, on every  *)
(* path after the upload has been saved, whether the engine call succeeds  *)
(* or raises, the temporary input file of save_temp_file has been deleted  *)
(* when the handler returns its response.                                  *)
C28_TempFileDeleted ==
    Responded /\ caller.saved => "input" \notin caller.temp_files

(* C30: a request that fails validation is answered with an HTTP 400 error *)
(* carrying the validation detail, and the engine is not invoked for it.   *)
C30_InvalidRequestRejected ==
    Responded /\ ValidationDetail(caller.request) # "None" =>
        /\ caller.response.http_status = 400
        /\ caller.response.message = ValidationDetail(caller.request)
        /\ caller.engine_calls = 0

====
